---- MODULE Spec2Model ----
(***************************************************************************)
(* The interactive session manager of src-tauri/src/terminal/mod.rs:       *)
(* the registry of pty sessions behind one mutex, the per-session output   *)
(* pump thread and its mpsc channel, the shared writer behind its own      *)
(* mutex, the delayed initial-command thread, and the child shell and the  *)
(* kernel pty they talk to.                                                *)
(*                                                                         *)
(* Every command except create_local_shell takes the registry mutex in its *)
(* first statement and keeps the guard until it returns, so at most one    *)
(* such command is between its lock() and its return: the variable cmd     *)
(* holds that command (pc # "done") or the last one that returned          *)
(* (pc = "done", the mutex is free).  Commands waiting for the mutex have  *)
(* done nothing yet and are not represented.                               *)
(***************************************************************************)
EXTENDS Integers, Sequences, FiniteSets, TLC

\* ------------------------------------------------------------------ bounds
\* A run is bounded by the identifiers it generates and by the events of its
\* environment, counted together: a byte emitted by a shell, the exit of a
\* shell, a failed read of the pump, a write_to_pty call that reaches a writer,
\* a create that is given an initial command.
MaxSessions == 2     \* Spec: identifiers generated
MaxEvents == 1       \* Spec: events
OneSession == 1      \* SpecIo: identifiers generated
MoreEvents == 3      \* SpecIo: events
SomeEvents == 2      \* SpecIoLive: events
BufSize == 2         \* the pump's read buffer (4096 bytes in the source), scaled
MaxProbes == 3       \* SpecApp: connectivity results the monitor is handed

Whole == [sessions |-> MaxSessions, events |-> MaxEvents]
Single == [sessions |-> OneSession, events |-> MoreEvents]
Stream == [sessions |-> OneSession, events |-> SomeEvents]

Ids == 1..MaxSessions

\* ------------------------------------------------------- inputs and values
None == <<>>                         \* Option::None
Some(x) == <<x>>                     \* Option::Some
Names == {None, Some("foo")}         \* name given to create
NewNames == {"bar"}                  \* new_name given to rename
Geometry == {<<None, None>>, <<Some(100), Some(30)>>}  \* <<cols, rows>> given to create
Sizes == {<<30, 100>>}               \* <<rows, cols>> given to resize
Commands == {None, Some(<<99>>)}     \* initial_command: absent, or "c"
WriteData == {<<120>>, <<233>>}      \* data given to write: "x", U+00E9
Times == {1000}                      \* SystemTime::now() in seconds
Unit == <<>>                         \* Rust's ()
Replacement == 65533                 \* U+FFFD

\* The bytes the shell of session id emits, in order: a letter of its own
\* ("A", "B", ..), the two bytes of an accented one (U+00E9, U+00EA, ..), "\n",
\* and again.
ShellScript(id) == <<64 + id, 195, 168 + id, 10>>
ShellByte(id, k) == ShellScript(id)[((k - 1) % 4) + 1]

\* ------------------------------------------------------------------- state
VARIABLES
    sessions,    \* TerminalManager.sessions: id -> the record's metadata
    inflight,    \* creates between spawn and insert: id -> the PtySession built
    nextId,      \* identifiers generated so far
    ptySize,     \* id -> <<rows, cols>> of the kernel pty
    child,       \* id -> "none" | "alive" | "exited"
    ptyOut,      \* id -> bytes the shell wrote that the master has not read
    ptyIn,       \* id -> bytes written to the master, in arrival order
    flushed,     \* id -> how many bytes of ptyIn a flush has covered
    pump,        \* id -> [pc, buf]: the reader thread
    chan,        \* id -> the mpsc channel: a sequence of chunks
    writerLock,  \* id -> "free" | "cmd" | "prime": the writer's mutex
    prime,       \* id -> [pc, data, k]: the initial-command thread
    cmd,         \* the command inside the registry mutex, or the last returned
    pumped,      \* history: id -> every byte the pump read from the pty
    drained,     \* history: id -> every byte try_recv handed to a read
    wlog,        \* history: id -> the writer acquisitions [who, data, k, st]
    app,         \* lib.rs run: [event, task], the run loop and the start task
    child_state, \* lib.rs: the managed Mutex<Option<CommandChild>>
    sidecars,    \* lib.rs: name -> [proc, kill]: the process, and kill() issued
    monitor,     \* NetworkMonitor's task: [pc, last_status]
    status,      \* NetworkMonitor.status
    emitted,     \* "network-status-changed" events emitted, in order
    probed,      \* history: the results handed to the monitor, in order
    network_monitor, \* network_commands.rs: the managed NetworkMonitorState
    reply        \* the last Ok of get_network_status, with history

\* The state of the session manager (terminal/mod.rs).
terminalVars == <<sessions, inflight, nextId, ptySize, child, ptyOut, ptyIn,
                  flushed, pump, chan, writerLock, prime, cmd, pumped, drained,
                  wlog>>

\* The state of the application shell (lib.rs, network_monitor.rs).
appVars == <<app, child_state, sidecars, monitor, status, emitted, probed,
             network_monitor, reply>>

vars == <<sessions, inflight, nextId, ptySize, child, ptyOut, ptyIn, flushed,
          pump, chan, writerLock, prime, cmd, pumped, drained, wlog,
          app, child_state, sidecars, monitor, status, emitted, probed,
          network_monitor, reply>>

\* ----------------------------------------------------------------- helpers
RECURSIVE Flat(_)
\* The bytes of a sequence of chunks, in order.
Flat(chunks) ==
    IF chunks = <<>> THEN <<>> ELSE Head(chunks) \o Flat(Tail(chunks))

IsPrefix(a, b) == Len(a) <= Len(b) /\ SubSeq(b, 1, Len(a)) = a

\* str::as_bytes of one character: its UTF-8 encoding.
EncodeChar(c) ==
    IF c < 128 THEN <<c>>
    ELSE IF c < 2048 THEN <<192 + (c \div 64), 128 + (c % 64)>>
    ELSE IF c < 65536
         THEN <<224 + (c \div 4096), 128 + ((c \div 64) % 64), 128 + (c % 64)>>
    ELSE <<240 + (c \div 262144), 128 + ((c \div 4096) % 64),
           128 + ((c \div 64) % 64), 128 + (c % 64)>>

RECURSIVE AsBytes(_)
\* data.as_bytes(): a String is a sequence of characters (code points).
AsBytes(text) ==
    IF text = <<>> THEN <<>> ELSE EncodeChar(Head(text)) \o AsBytes(Tail(text))

IsCont(b) == b >= 128 /\ b <= 191

\* The second byte a three- or four-byte lead accepts.
SecondOk(lead, b) ==
    CASE lead = 224 -> b >= 160 /\ b <= 191
      [] lead = 237 -> b >= 128 /\ b <= 159
      [] lead = 240 -> b >= 144 /\ b <= 191
      [] lead = 244 -> b >= 128 /\ b <= 143
      [] OTHER -> IsCont(b)

\* One step of the decoder over a non-empty byte sequence: the character, the
\* bytes it takes and whether they are a valid encoding.  An invalid step takes
\* the longest prefix that could have started a character and yields U+FFFD.
DecodeOne(b) ==
    LET at(i) == IF i <= Len(b) THEN b[i] ELSE 0
        bad(n) == [cp |-> Replacement, n |-> n, ok |-> FALSE]
        lead == b[1]
    IN  IF lead < 128 THEN [cp |-> lead, n |-> 1, ok |-> TRUE]
        ELSE IF lead >= 194 /\ lead <= 223
        THEN IF IsCont(at(2))
             THEN [cp |-> (lead - 192) * 64 + (at(2) - 128), n |-> 2, ok |-> TRUE]
             ELSE bad(1)
        ELSE IF lead >= 224 /\ lead <= 239
        THEN IF ~SecondOk(lead, at(2)) THEN bad(1)
             ELSE IF ~IsCont(at(3)) THEN bad(2)
             ELSE [cp |-> (lead - 224) * 4096 + (at(2) - 128) * 64 + (at(3) - 128),
                   n |-> 3, ok |-> TRUE]
        ELSE IF lead >= 240 /\ lead <= 244
        THEN IF ~SecondOk(lead, at(2)) THEN bad(1)
             ELSE IF ~IsCont(at(3)) THEN bad(2)
             ELSE IF ~IsCont(at(4)) THEN bad(3)
             ELSE [cp |-> (lead - 240) * 262144 + (at(2) - 128) * 4096
                          + (at(3) - 128) * 64 + (at(4) - 128),
                   n |-> 4, ok |-> TRUE]
        ELSE bad(1)

RECURSIVE Utf8Valid(_)
\* String::from_utf8 succeeds.
Utf8Valid(b) ==
    \/ b = <<>>
    \/ LET r == DecodeOne(b) IN r.ok /\ Utf8Valid(SubSeq(b, r.n + 1, Len(b)))

RECURSIVE Utf8Chars(_)
\* The String of a valid encoding.
Utf8Chars(b) ==
    IF b = <<>> THEN <<>>
    ELSE LET r == DecodeOne(b) IN <<r.cp>> \o Utf8Chars(SubSeq(b, r.n + 1, Len(b)))

RECURSIVE Utf8LossyDropping(_)
\* Utf8Lossy that leaves the invalid runs out instead of marking them.
Utf8LossyDropping(b) ==
    IF b = <<>> THEN <<>>
    ELSE LET r == DecodeOne(b)
         IN  (IF r.ok THEN <<r.cp>> ELSE <<>>)
                 \o Utf8LossyDropping(SubSeq(b, r.n + 1, Len(b)))

RECURSIVE Utf8Lossy(_)
\* String::from_utf8_lossy: every invalid run becomes one U+FFFD.
Utf8Lossy(b) ==
    IF b = <<>> THEN <<>>
    ELSE LET r == DecodeOne(b) IN <<r.cp>> \o Utf8Lossy(SubSeq(b, r.n + 1, Len(b)))

\* ReadText that gives up on bytes that are not UTF-8 and returns no text.
ReadTextOrEmpty(output) ==
    IF output = <<>> THEN <<>>
    ELSE IF Utf8Valid(output) THEN Utf8Chars(output)
    ELSE <<>>

\* The String read_from_pty returns for the bytes it drained.
ReadText(output) ==
    IF output = <<>> THEN <<>>
    ELSE IF Utf8Valid(output) THEN Utf8Chars(output)
    ELSE Utf8Lossy(output)

\* format!("Terminal {}", &session_id[..6])
DefaultName(id) == "Terminal " \o ToString(id)

\* The metadata of a record, as TerminalSessionInfo.
Info(s) == [id |-> s.id, session_type |-> s.session_type, name |-> s.name,
            created_at |-> s.created_at]

\* The program still owns the session's PtyPair, Receiver and writer: the
\* PtySession is a local of an unfinished create or a value of the registry.
Owned(id) == id \in DOMAIN sessions \/ id \in DOMAIN inflight

\* The identifier was registered and has been removed.
Removed(id) == id <= nextId /\ ~Owned(id)

\* format!("Session not found: {}", session_id)
NotFound(id) == "Session not found: " \o ToString(id)

\* The registry mutex is free.
LockFree == cmd.pc = "done"

Idle == [op |-> "none", id |-> 0, pc |-> "done", arg |-> <<>>, out |-> <<>>,
         res |-> "Ok", val |-> Unit, log |-> <<>>]

\* A command that has returned.
Returned(op, id, arg, res, val, log) ==
    [op |-> op, id |-> id, pc |-> "done", arg |-> arg, out |-> <<>>,
     res |-> res, val |-> val, log |-> log]

\* A command that holds the registry mutex at position pc.
Running(op, id, pc, arg, out) ==
    [op |-> op, id |-> id, pc |-> pc, arg |-> arg, out |-> out,
     res |-> "Pending", val |-> Unit, log |-> <<>>]

\* -------------------------------------------------------------------- Init
\* The two sidecars of lib.rs.
Companions == {"orchestrator", "operator"}

\* The builds that have a monitoring task (network_monitor.rs:53-61).
TargetOs == {"macos", "linux"}

\* NetworkManager states a StateChanged signal carries: DISCONNECTED,
\* CONNECTED_SITE, CONNECTED_GLOBAL.
NmStates == {20, 60, 70}

Init ==
    /\ sessions = [i \in {} |-> Idle]
    /\ inflight = [i \in {} |-> Idle]
    /\ nextId = 0
    /\ ptySize = [i \in Ids |-> <<0, 0>>]
    /\ child = [i \in Ids |-> "none"]
    /\ ptyOut = [i \in Ids |-> <<>>]
    /\ ptyIn = [i \in Ids |-> <<>>]
    /\ flushed = [i \in Ids |-> 0]
    /\ pump = [i \in Ids |-> [pc |-> "none", buf |-> <<>>]]
    /\ chan = [i \in Ids |-> <<>>]
    /\ writerLock = [i \in Ids |-> "free"]
    /\ prime = [i \in Ids |-> [pc |-> "none", data |-> <<>>, k |-> 0]]
    /\ cmd = Idle
    /\ pumped = [i \in Ids |-> <<>>]
    /\ drained = [i \in Ids |-> <<>>]
    /\ wlog = [i \in Ids |-> <<>>]
    /\ app = [event |-> "Setup", task |-> "none"]
    /\ child_state = None
    /\ sidecars = [c \in Companions |-> [proc |-> "none", kill |-> FALSE]]
    /\ monitor = [pc |-> "new", last_status |-> TRUE]
    /\ status = [online |-> TRUE]
    /\ emitted = <<>>
    /\ probed = <<>>
    /\ network_monitor = [status |-> [online |-> TRUE]]
    /\ reply = None

RECURSIVE SumOver(_, _)
\* The sum of f[i] over the set S.
SumOver(f, S) ==
    IF S = {} THEN 0
    ELSE LET i == CHOOSE j \in S : TRUE IN f[i] + SumOver(f, S \ {i})

\* Bytes the shells have emitted so far.
Emitted == SumOver([i \in Ids |-> Len(pumped[i]) + Len(ptyOut[i])], Ids)

\* Creates that were given an initial command.
Primes == Cardinality({i \in Ids : prime[i].pc # "none"})

\* The write_to_pty calls that reached a writer or are about to.
CmdWrites ==
    SumOver([i \in Ids |->
               Cardinality({j \in 1..Len(wlog[i]) : wlog[i][j].who = "cmd"})], Ids)
    + (IF cmd.op = "write" /\ cmd.pc = "wlock" THEN 1 ELSE 0)

\* Shells that have exited.
Exits == Cardinality({i \in Ids : child[i] = "exited"})

\* Pumps that ended on a failed read.
ReadErrors == Cardinality({i \in Ids : pump[i].pc = "err"})

\* The pump thread has ended and its Sender is dropped: on end of file, on a
\* failed read, or on a send that found the Receiver gone.
PumpDone(id) == pump[id].pc \in {"eof", "err", "gone"}

\* The events of the run so far.
Events == Emitted + Exits + ReadErrors + Primes + CmdWrites

\* ------------------------------------------------------------------ create
\* CreateSpawn with the two default sizes exchanged.
CreateSpawnSwapped(b, name, cols, rows, initial_command, now) ==
    /\ nextId < b.sessions
    /\ initial_command # None => Events < b.events
    /\ LET id == nextId + 1
           session_name == IF name = None THEN DefaultName(id) ELSE name[1]
       IN  /\ nextId' = id
           /\ ptySize' = [ptySize EXCEPT ![id] =
                            <<IF rows = None THEN 80 ELSE rows[1],
                              IF cols = None THEN 24 ELSE cols[1]>>]
           /\ child' = [child EXCEPT ![id] = "alive"]
           /\ pump' = [pump EXCEPT ![id] = [pc |-> "read", buf |-> <<>>]]
           /\ prime' = [prime EXCEPT ![id] =
                          IF initial_command = None
                          THEN [pc |-> "none", data |-> <<>>, k |-> 0]
                          ELSE [pc |-> "sleep",
                                data |-> AsBytes(initial_command[1] \o <<10>>),
                                k |-> 0]]
           /\ inflight' = [i \in DOMAIN inflight \cup {id} |->
                             IF i = id
                             THEN [id |-> id, session_type |-> "Local",
                                   name |-> session_name, created_at |-> now]
                             ELSE inflight[i]]
    /\ UNCHANGED cmd
    /\ UNCHANGED <<sessions, ptyOut, ptyIn, flushed, chan, writerLock, pumped,
                   drained, wlog>>
    /\ UNCHANGED appVars

\* create_local_shell up to the registry lock: open the pty at the requested
\* size, spawn the shell on the slave, clone the reader, take the writer,
\* generate the identifier, start the reader thread and, with an initial
\* command, the thread that will write it.  The PtySession is a local.
CreateSpawn(b, name, cols, rows, initial_command, now) ==
    /\ nextId < b.sessions
    /\ initial_command # None => Events < b.events
    /\ LET id == nextId + 1
           session_name == IF name = None THEN DefaultName(id) ELSE name[1]
       IN  /\ nextId' = id
           /\ ptySize' = [ptySize EXCEPT ![id] =
                            <<IF rows = None THEN 24 ELSE rows[1],
                              IF cols = None THEN 80 ELSE cols[1]>>]
           /\ child' = [child EXCEPT ![id] = "alive"]
           /\ pump' = [pump EXCEPT ![id] = [pc |-> "read", buf |-> <<>>]]
           /\ prime' = [prime EXCEPT ![id] =
                          IF initial_command = None
                          THEN [pc |-> "none", data |-> <<>>, k |-> 0]
                          ELSE [pc |-> "sleep",
                                data |-> AsBytes(initial_command[1] \o <<10>>),
                                k |-> 0]]
           /\ inflight' = [i \in DOMAIN inflight \cup {id} |->
                             IF i = id
                             THEN [id |-> id, session_type |-> "Local",
                                   name |-> session_name, created_at |-> now]
                             ELSE inflight[i]]
    /\ UNCHANGED cmd
    /\ UNCHANGED <<sessions, ptyOut, ptyIn, flushed, chan, writerLock, pumped,
                   drained, wlog>>
    /\ UNCHANGED appVars

\* The end of create_local_shell: lock the registry, insert, return the info.
CreateInsert(id) ==
    /\ LockFree
    /\ id \in DOMAIN inflight
    /\ sessions' = [i \in DOMAIN sessions \cup {id} |->
                      IF i = id THEN inflight[id] ELSE sessions[i]]
    /\ inflight' = [i \in DOMAIN inflight \ {id} |-> inflight[i]]
    /\ cmd' = Returned("create", id, <<>>, "Ok", <<Info(inflight[id])>>, <<>>)
    /\ UNCHANGED <<nextId, ptySize, child, ptyOut, ptyIn, flushed, pump, chan,
                   writerLock, prime, pumped, drained, wlog>>
    /\ UNCHANGED appVars

\* The four `?` of create_local_shell before the identifier is generated.
CreateErrors == {"Failed to open PTY", "Failed to spawn shell",
                 "Failed to clone PTY reader", "Failed to get PTY writer"}

\* The locals create_local_shell holds when it returns err, all dropped by the
\* return: the PtyPair once openpty succeeded, the Child handle once the shell
\* was spawned (the drop of the pair hangs the shell up; the handle is neither
\* killed nor waited for), the reader once it was cloned.
Dropped(err) ==
    CASE err = "Failed to open PTY" -> <<>>
      [] err = "Failed to spawn shell" -> <<"pty_pair">>
      [] err = "Failed to clone PTY reader" -> <<"pty_pair", "child">>
      [] err = "Failed to get PTY writer" -> <<"pty_pair", "child", "reader">>

\* CreateFail at a take_writer moved after the start of the reader thread: the
\* thread and the shell are left behind.
CreateFailLate(err) ==
    /\ LockFree
    /\ cmd' = Returned("create", 0, <<>>, err, Unit, Dropped(err))
    /\ IF err = "Failed to get PTY writer" /\ nextId < MaxSessions
       THEN /\ nextId' = nextId + 1
            /\ child' = [child EXCEPT ![nextId + 1] = "alive"]
            /\ pump' = [pump EXCEPT ![nextId + 1] = [pc |-> "read", buf |-> <<>>]]
       ELSE UNCHANGED <<nextId, child, pump>>
    /\ UNCHANGED <<sessions, inflight, ptySize, ptyOut, ptyIn,
                   flushed, chan, writerLock, prime, pumped, drained, wlog>>
    /\ UNCHANGED appVars

\* create_local_shell returning at one of its four `?` before the identifier
\* is generated: no thread has been started, no PtySession is built and the
\* registry is not touched.
CreateFail(err) ==
    /\ LockFree
    /\ cmd' = Returned("create", 0, <<>>, err, Unit, Dropped(err))
    /\ UNCHANGED <<sessions, inflight, nextId, ptySize, child, ptyOut, ptyIn,
                   flushed, pump, chan, writerLock, prime, pumped, drained,
                   wlog>>
    /\ UNCHANGED appVars

\* ------------------------------------------------------- the child process
\* The shell writes its next byte to the slave.
ChildEmit(b, id) ==
    /\ child[id] = "alive"
    /\ Events < b.events
    /\ ptyOut' = [ptyOut EXCEPT ![id] =
                    Append(@, ShellByte(id, Len(pumped[id]) + Len(@) + 1))]
    /\ UNCHANGED cmd
    /\ UNCHANGED <<sessions, inflight, nextId, ptySize, child, ptyIn, flushed,
                   pump, chan, writerLock, prime, pumped, drained, wlog>>
    /\ UNCHANGED appVars

\* The shell exits; its copies of the slave handle close.
ChildExit(b, id) ==
    /\ child[id] = "alive"
    /\ Events < b.events
    /\ child' = [child EXCEPT ![id] = "exited"]
    /\ UNCHANGED cmd
    /\ UNCHANGED <<sessions, inflight, nextId, ptySize, ptyOut, ptyIn, flushed,
                   pump, chan, writerLock, prime, pumped, drained, wlog>>
    /\ UNCHANGED appVars

\* --------------------------------------------------------- the output pump
\* reader.read(&mut buffer) returns Ok(n), n > 0: some of the pending bytes,
\* at most a buffer of them.
PumpRead(id, n) ==
    /\ pump[id].pc = "read"
    /\ n >= 1 /\ n <= Len(ptyOut[id]) /\ n <= BufSize
    /\ pump' = [pump EXCEPT ![id] = [pc |-> "send", buf |-> SubSeq(ptyOut[id], 1, n)]]
    /\ ptyOut' = [ptyOut EXCEPT ![id] = SubSeq(@, n + 1, Len(@))]
    /\ pumped' = [pumped EXCEPT ![id] = @ \o SubSeq(ptyOut[id], 1, n)]
    /\ UNCHANGED cmd
    /\ UNCHANGED <<sessions, inflight, nextId, ptySize, child, ptyIn, flushed,
                   chan, writerLock, prime, drained, wlog>>
    /\ UNCHANGED appVars

\* The master reports end of file once nothing is pending and no handle of the
\* slave is open: the shell's are closed by its exit, the program's by the drop
\* of the PtySession, which owns the PtyPair and so the slave.
SlaveOpen(id) == child[id] = "alive" \/ Owned(id)

\* reader.read returns Ok(0): the thread ends and drops the Sender.
PumpEof(id) ==
    /\ pump[id].pc = "read"
    /\ ptyOut[id] = <<>>
    /\ ~SlaveOpen(id)
    /\ pump' = [pump EXCEPT ![id] = [pc |-> "eof", buf |-> <<>>]]
    /\ UNCHANGED cmd
    /\ UNCHANGED <<sessions, inflight, nextId, ptySize, child, ptyOut, ptyIn,
                   flushed, chan, writerLock, prime, pumped, drained, wlog>>
    /\ UNCHANGED appVars

\* PumpReadErr whose failure takes every reading pump down with it.
PumpReadErrAll(b, id) ==
    /\ pump[id].pc = "read"
    /\ Events < b.events
    /\ pump' = [i \in Ids |-> IF pump[i].pc = "read"
                              THEN [pc |-> "err", buf |-> <<>>] ELSE pump[i]]
    /\ UNCHANGED cmd
    /\ UNCHANGED <<sessions, inflight, nextId, ptySize, child, ptyOut, ptyIn,
                   flushed, chan, writerLock, prime, pumped, drained, wlog>>
    /\ UNCHANGED appVars

\* reader.read returns Err(e): logged, the thread ends and drops the Sender.
PumpReadErr(b, id) ==
    /\ pump[id].pc = "read"
    /\ Events < b.events
    /\ pump' = [pump EXCEPT ![id] = [pc |-> "err", buf |-> <<>>]]
    /\ UNCHANGED cmd
    /\ UNCHANGED <<sessions, inflight, nextId, ptySize, child, ptyOut, ptyIn,
                   flushed, chan, writerLock, prime, pumped, drained, wlog>>
    /\ UNCHANGED appVars

\* PumpSend into a channel of one slot: a new chunk replaces the waiting ones.
PumpSendLatest(id) ==
    /\ pump[id].pc = "send"
    /\ IF Owned(id)
       THEN /\ chan' = [chan EXCEPT ![id] = <<pump[id].buf>>]
            /\ pump' = [pump EXCEPT ![id] = [pc |-> "read", buf |-> <<>>]]
       ELSE /\ pump' = [pump EXCEPT ![id] = [pc |-> "gone", buf |-> <<>>]]
            /\ UNCHANGED chan
    /\ UNCHANGED cmd
    /\ UNCHANGED <<sessions, inflight, nextId, ptySize, child, ptyOut, ptyIn,
                   flushed, writerLock, prime, pumped, drained, wlog>>
    /\ UNCHANGED appVars

\* PumpSend into a channel that outlives its Receiver: the send never fails.
PumpSendAnyway(id) ==
    /\ pump[id].pc = "send"
    /\ chan' = [chan EXCEPT ![id] = Append(@, pump[id].buf)]
    /\ pump' = [pump EXCEPT ![id] = [pc |-> "read", buf |-> <<>>]]
    /\ UNCHANGED cmd
    /\ UNCHANGED <<sessions, inflight, nextId, ptySize, child, ptyOut, ptyIn,
                   flushed, writerLock, prime, pumped, drained, wlog>>
    /\ UNCHANGED appVars

\* PumpSend that sends the bytes it read one message per byte.
PumpSendSplit(id) ==
    /\ pump[id].pc = "send"
    /\ IF Owned(id)
       THEN /\ chan' = [chan EXCEPT ![id] =
                          @ \o [k \in 1..Len(pump[id].buf) |-> <<pump[id].buf[k]>>]]
            /\ pump' = [pump EXCEPT ![id] = [pc |-> "read", buf |-> <<>>]]
       ELSE /\ pump' = [pump EXCEPT ![id] = [pc |-> "gone", buf |-> <<>>]]
            /\ UNCHANGED chan
    /\ UNCHANGED cmd
    /\ UNCHANGED <<sessions, inflight, nextId, ptySize, child, ptyOut, ptyIn,
                   flushed, writerLock, prime, pumped, drained, wlog>>
    /\ UNCHANGED appVars

\* PumpSend into one channel shared by the sessions: the chunk goes to another
\* registered session when there is one.
PumpSendCrossed(id) ==
    /\ pump[id].pc = "send"
    /\ IF Owned(id)
       THEN /\ LET to == IF \E j \in DOMAIN sessions : j # id
                         THEN CHOOSE j \in DOMAIN sessions : j # id
                         ELSE id
               IN  chan' = [chan EXCEPT ![to] = Append(@, pump[id].buf)]
            /\ pump' = [pump EXCEPT ![id] = [pc |-> "read", buf |-> <<>>]]
       ELSE /\ pump' = [pump EXCEPT ![id] = [pc |-> "gone", buf |-> <<>>]]
            /\ UNCHANGED chan
    /\ UNCHANGED cmd
    /\ UNCHANGED <<sessions, inflight, nextId, ptySize, child, ptyOut, ptyIn,
                   flushed, writerLock, prime, pumped, drained, wlog>>
    /\ UNCHANGED appVars

\* output_sender.send(buffer[..n].to_vec()): one message, or the end of the
\* thread when the Receiver is gone.
PumpSend(id) ==
    /\ pump[id].pc = "send"
    /\ IF Owned(id)
       THEN /\ chan' = [chan EXCEPT ![id] = Append(@, pump[id].buf)]
            /\ pump' = [pump EXCEPT ![id] = [pc |-> "read", buf |-> <<>>]]
       ELSE /\ pump' = [pump EXCEPT ![id] = [pc |-> "gone", buf |-> <<>>]]
            /\ UNCHANGED chan
    /\ UNCHANGED cmd
    /\ UNCHANGED <<sessions, inflight, nextId, ptySize, child, ptyOut, ptyIn,
                   flushed, writerLock, prime, pumped, drained, wlog>>
    /\ UNCHANGED appVars

\* ------------------------------------------------ the writer and its mutex
\* The writer's mutex is taken by `who` for the payload data.
Acquire(log, who, data) ==
    Append(log, [who |-> who, data |-> data, k |-> 0, st |-> "busy"])

\* The latest acquisition of the writer's mutex by `who`.
Latest(log, who) ==
    CHOOSE j \in 1..Len(log) :
        /\ log[j].who = who
        /\ \A i \in (j + 1)..Len(log) : log[i].who # who

\* `who`, holding the writer's mutex, has written n more bytes.
Wrote(log, who, n) == [log EXCEPT ![Latest(log, who)].k = @ + n]

\* `who` releases the writer's mutex with the outcome st.
Release(log, who, st) == [log EXCEPT ![Latest(log, who)].st = st]


\* ---------------------------------------------- the initial-command thread
\* PrimeLock on a writer that is not behind a mutex.
PrimeLockUnguarded(id) ==
    /\ prime[id].pc = "sleep"
    /\ writerLock' = [writerLock EXCEPT ![id] = "prime"]
    /\ prime' = [prime EXCEPT ![id].pc = "write"]
    /\ wlog' = [wlog EXCEPT ![id] = Acquire(@, "prime", prime[id].data)]
    /\ UNCHANGED cmd
    /\ UNCHANGED <<sessions, inflight, nextId, ptySize, child, ptyOut, ptyIn,
                   flushed, pump, chan, pumped, drained>>
    /\ UNCHANGED appVars

\* After the sleep: writer_clone.lock().
PrimeLock(id) ==
    /\ prime[id].pc = "sleep"
    /\ writerLock[id] = "free"
    /\ writerLock' = [writerLock EXCEPT ![id] = "prime"]
    /\ prime' = [prime EXCEPT ![id].pc = "write"]
    /\ wlog' = [wlog EXCEPT ![id] = Acquire(@, "prime", prime[id].data)]
    /\ UNCHANGED cmd
    /\ UNCHANGED <<sessions, inflight, nextId, ptySize, child, ptyOut, ptyIn,
                   flushed, pump, chan, pumped, drained>>
    /\ UNCHANGED appVars

\* w.write_all(..): one write call of the loop takes n bytes; after the last
\* byte write_all returns Ok.
PrimeWrite(id, n) ==
    /\ prime[id].pc = "write"
    /\ n >= 1 /\ prime[id].k + n <= Len(prime[id].data)
    /\ ptyIn' = [ptyIn EXCEPT ![id] =
                   @ \o SubSeq(prime[id].data, prime[id].k + 1, prime[id].k + n)]
    /\ prime' = [prime EXCEPT ![id].k = @ + n,
                              ![id].pc = IF prime[id].k + n = Len(prime[id].data)
                                         THEN "flush" ELSE "write"]
    /\ wlog' = [wlog EXCEPT ![id] = Wrote(@, "prime", n)]
    /\ UNCHANGED cmd
    /\ UNCHANGED <<sessions, inflight, nextId, ptySize, child, ptyOut, flushed,
                   pump, chan, writerLock, pumped, drained>>
    /\ UNCHANGED appVars

\* w.write_all(..) returns Err: logged, and the thread goes on to flush.
PrimeWriteErr(id) ==
    /\ prime[id].pc = "write"
    /\ prime' = [prime EXCEPT ![id].pc = "flush"]
    /\ UNCHANGED cmd
    /\ UNCHANGED <<sessions, inflight, nextId, ptySize, child, ptyOut, ptyIn,
                   flushed, pump, chan, writerLock, pumped, drained, wlog>>
    /\ UNCHANGED appVars

\* let _ = w.flush(); the guard is dropped and the thread ends.
PrimeFlush(id, ok) ==
    /\ prime[id].pc = "flush"
    /\ prime' = [prime EXCEPT ![id].pc = "done"]
    /\ flushed' = [flushed EXCEPT ![id] = IF ok THEN Len(ptyIn[id]) ELSE @]
    /\ writerLock' = [writerLock EXCEPT ![id] = "free"]
    /\ wlog' = [wlog EXCEPT ![id] =
                  Release(@, "prime",
                          IF prime[id].k = Len(prime[id].data) THEN "ok" ELSE "err")]
    /\ UNCHANGED cmd
    /\ UNCHANGED <<sessions, inflight, nextId, ptySize, child, ptyOut, ptyIn,
                   pump, chan, pumped, drained>>
    /\ UNCHANGED appVars

\* ------------------------------------------------------------ write_to_pty
\* state.lock() and sessions.get(&session_id).
WriteBegin(b, id, data) ==
    /\ LockFree
    /\ IF id \in DOMAIN sessions
       THEN /\ Events < b.events
            /\ cmd' = Running("write", id, "wlock", AsBytes(data), <<>>)
       ELSE cmd' = Returned("write", id, <<>>, NotFound(id), Unit, <<>>)
    /\ UNCHANGED <<sessions, inflight, nextId, ptySize, child, ptyOut, ptyIn,
                   flushed, pump, chan, writerLock, prime, pumped, drained,
                   wlog>>
    /\ UNCHANGED appVars

\* WriteLock on a writer that is not behind a mutex.
WriteUnlocked ==
    /\ cmd.op = "write" /\ cmd.pc = "wlock"
    /\ writerLock' = [writerLock EXCEPT ![cmd.id] = "cmd"]
    /\ wlog' = [wlog EXCEPT ![cmd.id] = Acquire(@, "cmd", cmd.arg)]
    /\ cmd' = [cmd EXCEPT !.pc = "write"]
    /\ UNCHANGED <<sessions, inflight, nextId, ptySize, child, ptyOut, ptyIn,
                   flushed, pump, chan, prime, pumped, drained>>
    /\ UNCHANGED appVars

\* session.writer.lock()
WriteLock ==
    /\ cmd.op = "write" /\ cmd.pc = "wlock"
    /\ writerLock[cmd.id] = "free"
    /\ writerLock' = [writerLock EXCEPT ![cmd.id] = "cmd"]
    /\ wlog' = [wlog EXCEPT ![cmd.id] = Acquire(@, "cmd", cmd.arg)]
    /\ cmd' = [cmd EXCEPT !.pc = "write"]
    /\ UNCHANGED <<sessions, inflight, nextId, ptySize, child, ptyOut, ptyIn,
                   flushed, pump, chan, prime, pumped, drained>>
    /\ UNCHANGED appVars

\* writer.write_all(data.as_bytes()): one write call of the loop takes n bytes.
WriteSome(n) ==
    /\ cmd.op = "write" /\ cmd.pc = "write"
    /\ n >= 1 /\ Len(cmd.out) + n <= Len(cmd.arg)
    /\ ptyIn' = [ptyIn EXCEPT ![cmd.id] =
                   @ \o SubSeq(cmd.arg, Len(cmd.out) + 1, Len(cmd.out) + n)]
    /\ cmd' = [cmd EXCEPT !.out = SubSeq(cmd.arg, 1, Len(cmd.out) + n)]
    /\ wlog' = [wlog EXCEPT ![cmd.id] = Wrote(@, "cmd", n)]
    /\ UNCHANGED <<sessions, inflight, nextId, ptySize, child, ptyOut, flushed,
                   pump, chan, writerLock, prime, pumped, drained>>
    /\ UNCHANGED appVars

\* WriteErr that gives up the session whose write failed.
WriteErrRemoves ==
    /\ cmd.op = "write" /\ cmd.pc = "write"
    /\ Len(cmd.out) < Len(cmd.arg)
    /\ cmd' = Returned("write", cmd.id, cmd.arg, "Failed to write to PTY", Unit, <<>>)
    /\ sessions' = [i \in DOMAIN sessions \ {cmd.id} |-> sessions[i]]
    /\ chan' = [chan EXCEPT ![cmd.id] = <<>>]
    /\ writerLock' = [writerLock EXCEPT ![cmd.id] = "free"]
    /\ wlog' = [wlog EXCEPT ![cmd.id] = Release(@, "cmd", "err")]
    /\ UNCHANGED <<inflight, nextId, ptySize, child, ptyOut, ptyIn,
                   flushed, pump, prime, pumped, drained>>
    /\ UNCHANGED appVars

\* write_all returns Err: the command returns it; both guards are dropped.
WriteErr ==
    /\ cmd.op = "write" /\ cmd.pc = "write"
    /\ Len(cmd.out) < Len(cmd.arg)
    /\ cmd' = Returned("write", cmd.id, cmd.arg, "Failed to write to PTY", Unit, <<>>)
    /\ writerLock' = [writerLock EXCEPT ![cmd.id] = "free"]
    /\ wlog' = [wlog EXCEPT ![cmd.id] = Release(@, "cmd", "err")]
    /\ UNCHANGED <<sessions, inflight, nextId, ptySize, child, ptyOut, ptyIn,
                   flushed, pump, chan, prime, pumped, drained>>
    /\ UNCHANGED appVars

\* WriteFlush with the result of flush() dropped, as `let _ = w.flush()`.
WriteFlushIgnored(ok) ==
    /\ cmd.op = "write" /\ cmd.pc = "write"
    /\ Len(cmd.out) = Len(cmd.arg)
    /\ cmd' = Returned("write", cmd.id, cmd.arg, "Ok", Unit, <<>>)
    /\ flushed' = [flushed EXCEPT ![cmd.id] = IF ok THEN Len(ptyIn[cmd.id]) ELSE @]
    /\ writerLock' = [writerLock EXCEPT ![cmd.id] = "free"]
    /\ wlog' = [wlog EXCEPT ![cmd.id] = Release(@, "cmd", IF ok THEN "ok" ELSE "err")]
    /\ UNCHANGED <<sessions, inflight, nextId, ptySize, child, ptyOut, ptyIn,
                   pump, chan, prime, pumped, drained>>
    /\ UNCHANGED appVars

\* writer.flush() after write_all returned Ok, and the return.
WriteFlush(ok) ==
    /\ cmd.op = "write" /\ cmd.pc = "write"
    /\ Len(cmd.out) = Len(cmd.arg)
    /\ cmd' = Returned("write", cmd.id, cmd.arg,
                       IF ok THEN "Ok" ELSE "Failed to flush PTY", Unit, <<>>)
    /\ flushed' = [flushed EXCEPT ![cmd.id] = IF ok THEN Len(ptyIn[cmd.id]) ELSE @]
    /\ writerLock' = [writerLock EXCEPT ![cmd.id] = "free"]
    /\ wlog' = [wlog EXCEPT ![cmd.id] = Release(@, "cmd", IF ok THEN "ok" ELSE "err")]
    /\ UNCHANGED <<sessions, inflight, nextId, ptySize, child, ptyOut, ptyIn,
                   pump, chan, prime, pumped, drained>>
    /\ UNCHANGED appVars

\* ----------------------------------------------------------- read_from_pty
\* History, kept in the argument of a read: the last command to return before
\* it was the create of the session it reads.
AfterCreate(id) == cmd.op = "create" /\ cmd.id = id /\ cmd.res = "Ok"

\* ReadBegin with a missing session read as an empty one.
ReadBeginLenient(id) ==
    /\ LockFree
    /\ cmd' = IF id \in DOMAIN sessions
              THEN Running("read", id, "drain", <<AfterCreate(id)>>, <<>>)
              ELSE Returned("read", id, <<>>, "Ok", <<>>, <<"Empty">>)
    /\ UNCHANGED <<sessions, inflight, nextId, ptySize, child, ptyOut, ptyIn,
                   flushed, pump, chan, writerLock, prime, pumped, drained,
                   wlog>>
    /\ UNCHANGED appVars

\* state.lock(), sessions.get(&session_id) and the empty output vector.
ReadBegin(id) ==
    /\ LockFree
    /\ cmd' = IF id \in DOMAIN sessions
              THEN Running("read", id, "drain", <<AfterCreate(id)>>, <<>>)
              ELSE Returned("read", id, <<>>, NotFound(id), Unit, <<>>)
    /\ UNCHANGED <<sessions, inflight, nextId, ptySize, child, ptyOut, ptyIn,
                   flushed, pump, chan, writerLock, prime, pumped, drained,
                   wlog>>
    /\ UNCHANGED appVars

\* ReadReturn without the lossy fallback: bytes that are not UTF-8 are an error.
ReadReturnStrict(id, output, why) ==
    IF output = <<>> \/ Utf8Valid(output)
    THEN [Returned("read", id, cmd.arg, "Ok", ReadText(output), <<why>>)
            EXCEPT !.out = output]
    ELSE [Returned("read", id, cmd.arg, "Invalid UTF-8", Unit, <<why>>)
            EXCEPT !.out = output]

\* What read_from_pty returns once its loop has ended with `output` on the
\* try_recv error `why`.  History, kept with the returned value: the bytes the
\* call drained (out) and how its loop ended (log).
ReadReturn(id, output, why) ==
    [Returned("read", id, cmd.arg, "Ok", ReadText(output), <<why>>)
       EXCEPT !.out = output]

\* ReadRecv that copies the waiting chunk and leaves it in the channel.
ReadRecvPeek ==
    /\ cmd.op = "read" /\ cmd.pc = "drain"
    /\ chan[cmd.id] # <<>>
    /\ cmd' = [cmd EXCEPT !.out = @ \o Head(chan[cmd.id])]
    /\ drained' = [drained EXCEPT ![cmd.id] = @ \o Head(chan[cmd.id])]
    /\ UNCHANGED <<sessions, inflight, nextId, ptySize, child, ptyOut, ptyIn,
                   flushed, pump, chan, writerLock, prime, pumped, wlog>>
    /\ UNCHANGED appVars

\* ReadRecv that converts each chunk to text by itself and keeps the text's
\* bytes.
ReadRecvDecoding ==
    /\ cmd.op = "read" /\ cmd.pc = "drain"
    /\ chan[cmd.id] # <<>>
    /\ cmd' = [cmd EXCEPT !.out = @ \o AsBytes(ReadText(Head(chan[cmd.id])))]
    /\ chan' = [chan EXCEPT ![cmd.id] = Tail(@)]
    /\ drained' = [drained EXCEPT ![cmd.id] = @ \o Head(chan[cmd.id])]
    /\ UNCHANGED <<sessions, inflight, nextId, ptySize, child, ptyOut, ptyIn,
                   flushed, pump, writerLock, prime, pumped, wlog>>
    /\ UNCHANGED appVars

\* try_recv() returns Ok(data): output.extend(data).
ReadRecv ==
    /\ cmd.op = "read" /\ cmd.pc = "drain"
    /\ chan[cmd.id] # <<>>
    /\ cmd' = [cmd EXCEPT !.out = @ \o Head(chan[cmd.id])]
    /\ chan' = [chan EXCEPT ![cmd.id] = Tail(@)]
    /\ drained' = [drained EXCEPT ![cmd.id] = @ \o Head(chan[cmd.id])]
    /\ UNCHANGED <<sessions, inflight, nextId, ptySize, child, ptyOut, ptyIn,
                   flushed, pump, writerLock, prime, pumped, wlog>>
    /\ UNCHANGED appVars

\* ReadEmpty that takes an empty channel for a closed one when nothing was
\* drained.
ReadEmptyAsClosed ==
    /\ cmd.op = "read" /\ cmd.pc = "drain"
    /\ chan[cmd.id] = <<>>
    /\ ~PumpDone(cmd.id)
    /\ cmd' = IF cmd.out = <<>>
              THEN Returned("read", cmd.id, cmd.arg, "PTY session closed", Unit,
                            <<"Empty">>)
              ELSE ReadReturn(cmd.id, cmd.out, "Empty")
    /\ UNCHANGED <<sessions, inflight, nextId, ptySize, child, ptyOut, ptyIn,
                   flushed, pump, chan, writerLock, prime, pumped, drained, wlog>>
    /\ UNCHANGED appVars

\* ReadEmpty with recv() in the place of try_recv(): on an empty channel with a
\* living Sender the call waits, and this arm is never taken.
ReadEmptyBlocking ==
    /\ cmd.op = "read" /\ cmd.pc = "drain"
    /\ chan[cmd.id] = <<>>
    /\ ~PumpDone(cmd.id)
    /\ FALSE
    /\ UNCHANGED vars

\* try_recv() returns Err(Empty): the channel holds nothing and the Sender
\* lives; the loop ends and the text of the output is returned.
ReadEmpty ==
    /\ cmd.op = "read" /\ cmd.pc = "drain"
    /\ chan[cmd.id] = <<>>
    /\ ~PumpDone(cmd.id)
    /\ cmd' = ReadReturn(cmd.id, cmd.out, "Empty")
    /\ UNCHANGED <<sessions, inflight, nextId, ptySize, child, ptyOut, ptyIn,
                   flushed, pump, chan, writerLock, prime, pumped, drained, wlog>>
    /\ UNCHANGED appVars

\* ReadDisconnected that reports the closed channel whatever it drained.
ReadDisconnectedAlways ==
    /\ cmd.op = "read" /\ cmd.pc = "drain"
    /\ chan[cmd.id] = <<>>
    /\ PumpDone(cmd.id)
    /\ cmd' = [Returned("read", cmd.id, cmd.arg, "PTY session closed", Unit,
                        <<"Disconnected">>) EXCEPT !.out = cmd.out]
    /\ UNCHANGED <<sessions, inflight, nextId, ptySize, child, ptyOut, ptyIn,
                   flushed, pump, chan, writerLock, prime, pumped, drained, wlog>>
    /\ UNCHANGED appVars

\* ReadDisconnected that drops the record of a session it reports closed.
ReadDisconnectedRemoves ==
    /\ cmd.op = "read" /\ cmd.pc = "drain"
    /\ chan[cmd.id] = <<>>
    /\ PumpDone(cmd.id)
    /\ cmd' = IF cmd.out = <<>>
              THEN Returned("read", cmd.id, cmd.arg, "PTY session closed", Unit,
                            <<"Disconnected">>)
              ELSE ReadReturn(cmd.id, cmd.out, "Disconnected")
    /\ sessions' = IF cmd.out = <<>>
                   THEN [i \in DOMAIN sessions \ {cmd.id} |-> sessions[i]]
                   ELSE sessions
    /\ UNCHANGED <<inflight, nextId, ptySize, child, ptyOut, ptyIn,
                   flushed, pump, chan, writerLock, prime, pumped, drained, wlog>>
    /\ UNCHANGED appVars

\* ReadDisconnected that takes a closed channel for one with no data yet.
ReadDisconnectedAsEmpty ==
    /\ cmd.op = "read" /\ cmd.pc = "drain"
    /\ chan[cmd.id] = <<>>
    /\ PumpDone(cmd.id)
    /\ cmd' = ReadReturn(cmd.id, cmd.out, "Disconnected")
    /\ UNCHANGED <<sessions, inflight, nextId, ptySize, child, ptyOut, ptyIn,
                   flushed, pump, chan, writerLock, prime, pumped, drained, wlog>>
    /\ UNCHANGED appVars

\* ReadDisconnected that reports the closed channel and starts the pump anew.
ReadDisconnectedRevives ==
    /\ cmd.op = "read" /\ cmd.pc = "drain"
    /\ chan[cmd.id] = <<>>
    /\ PumpDone(cmd.id)
    /\ cmd' = IF cmd.out = <<>>
              THEN Returned("read", cmd.id, cmd.arg, "PTY session closed", Unit,
                            <<"Disconnected">>)
              ELSE ReadReturn(cmd.id, cmd.out, "Disconnected")
    /\ pump' = [pump EXCEPT ![cmd.id] = [pc |-> "read", buf |-> <<>>]]
    /\ UNCHANGED <<sessions, inflight, nextId, ptySize, child, ptyOut, ptyIn,
                   flushed, chan, writerLock, prime, pumped, drained, wlog>>
    /\ UNCHANGED appVars

\* try_recv() returns Err(Disconnected): the channel holds nothing and the
\* Sender is dropped; an error if nothing was drained, else the output.
ReadDisconnected ==
    /\ cmd.op = "read" /\ cmd.pc = "drain"
    /\ chan[cmd.id] = <<>>
    /\ PumpDone(cmd.id)
    /\ cmd' = IF cmd.out = <<>>
              THEN Returned("read", cmd.id, cmd.arg, "PTY session closed", Unit,
                            <<"Disconnected">>)
              ELSE ReadReturn(cmd.id, cmd.out, "Disconnected")
    /\ UNCHANGED <<sessions, inflight, nextId, ptySize, child, ptyOut, ptyIn,
                   flushed, pump, chan, writerLock, prime, pumped, drained, wlog>>
    /\ UNCHANGED appVars

\* -------------------------------------------------------------- resize_pty
\* state.lock() and sessions.get(&session_id).
ResizeBegin(id, cols, rows) ==
    /\ LockFree
    /\ cmd' = IF id \in DOMAIN sessions
              THEN Running("resize", id, "resize", <<rows, cols>>, <<>>)
              ELSE Returned("resize", id, <<>>, NotFound(id), Unit, <<>>)
    /\ UNCHANGED <<sessions, inflight, nextId, ptySize, child, ptyOut, ptyIn,
                   flushed, pump, chan, writerLock, prime, pumped, drained,
                   wlog>>
    /\ UNCHANGED appVars

\* ResizeCall with the rows and the columns of the PtySize exchanged.
ResizeCallSwapped(ok) ==
    /\ cmd.op = "resize" /\ cmd.pc = "resize"
    /\ ptySize' = [ptySize EXCEPT ![cmd.id] =
                     IF ok THEN <<cmd.arg[2], cmd.arg[1]>> ELSE @]
    /\ cmd' = Returned("resize", cmd.id, <<>>,
                       IF ok THEN "Ok" ELSE "Failed to resize PTY", Unit, <<>>)
    /\ UNCHANGED <<sessions, inflight, nextId, child, ptyOut, ptyIn, flushed,
                   pump, chan, writerLock, prime, pumped, drained, wlog>>
    /\ UNCHANGED appVars

\* session.pty_pair.master.resize(..) and the return.
ResizeCall(ok) ==
    /\ cmd.op = "resize" /\ cmd.pc = "resize"
    /\ ptySize' = [ptySize EXCEPT ![cmd.id] = IF ok THEN cmd.arg ELSE @]
    /\ cmd' = Returned("resize", cmd.id, <<>>,
                       IF ok THEN "Ok" ELSE "Failed to resize PTY", Unit, <<>>)
    /\ UNCHANGED <<sessions, inflight, nextId, child, ptyOut, ptyIn, flushed,
                   pump, chan, writerLock, prime, pumped, drained, wlog>>
    /\ UNCHANGED appVars

\* ---------------------------------------------------------- rename_session
\* History, kept in the argument of a rename that succeeds: the name its
\* session was created with, when the last command to return before it was the
\* create of that session into an empty registry.
CreatedName(id) ==
    IF AfterCreate(id) /\ DOMAIN sessions = {id} THEN <<sessions[id].name>> ELSE <<>>

\* RenameSession that returns Ok without storing the name.
RenameForgotten(id, new_name) ==
    /\ LockFree
    /\ cmd' = IF id \in DOMAIN sessions
              THEN Returned("rename", id, CreatedName(id), "Ok", Unit, <<>>)
              ELSE Returned("rename", id, <<>>, NotFound(id), Unit, <<>>)
    /\ UNCHANGED <<sessions, inflight, nextId, ptySize, child, ptyOut, ptyIn,
                   flushed, pump, chan, writerLock, prime, pumped, drained, wlog>>
    /\ UNCHANGED appVars

\* RenameSession that gives the name to every session.
RenameEvery(id, new_name) ==
    /\ LockFree
    /\ IF id \in DOMAIN sessions
       THEN /\ sessions' = [i \in DOMAIN sessions |->
                              [sessions[i] EXCEPT !.name = new_name]]
            /\ cmd' = Returned("rename", id, CreatedName(id), "Ok", Unit, <<>>)
       ELSE /\ cmd' = Returned("rename", id, <<>>, NotFound(id), Unit, <<>>)
            /\ UNCHANGED sessions
    /\ UNCHANGED <<inflight, nextId, ptySize, child, ptyOut, ptyIn, flushed,
                   pump, chan, writerLock, prime, pumped, drained, wlog>>
    /\ UNCHANGED appVars

\* state.lock(), sessions.get_mut(&session_id) and the assignment of the name.
RenameSession(id, new_name) ==
    /\ LockFree
    /\ IF id \in DOMAIN sessions
       THEN /\ sessions' = [sessions EXCEPT ![id].name = new_name]
            /\ cmd' = Returned("rename", id, CreatedName(id), "Ok", Unit, <<>>)
       ELSE /\ cmd' = Returned("rename", id, <<>>, NotFound(id), Unit, <<>>)
            /\ UNCHANGED sessions
    /\ UNCHANGED <<inflight, nextId, ptySize, child, ptyOut, ptyIn, flushed,
                   pump, chan, writerLock, prime, pumped, drained, wlog>>
    /\ UNCHANGED appVars

\* ----------------------------------------------------------- close_session
\* The registry without the records of `gone`; their PtySessions are dropped.
RemoveAll(reg, gone) == [i \in DOMAIN reg \ gone |-> reg[i]]

\* The channels after the Receivers of `gone` are dropped with their messages.
DropReceivers(ch, gone) == [i \in Ids |-> IF i \in gone THEN <<>> ELSE ch[i]]

\* CloseSession that clears the registry instead of removing one record.
CloseSessionClears(id) ==
    /\ LockFree
    /\ IF id \in DOMAIN sessions
       THEN /\ sessions' = RemoveAll(sessions, DOMAIN sessions)
            /\ chan' = DropReceivers(chan, DOMAIN sessions)
            /\ cmd' = Returned("close", id, <<>>, "Ok", Unit, <<>>)
       ELSE /\ cmd' = Returned("close", id, <<>>, NotFound(id), Unit, <<>>)
            /\ UNCHANGED <<sessions, chan>>
    /\ UNCHANGED <<inflight, nextId, ptySize, child, ptyOut, ptyIn, flushed,
                   pump, writerLock, prime, pumped, drained, wlog>>
    /\ UNCHANGED appVars

\* CloseSession that also kills the shell of the session it removes.
CloseSessionKills(id) ==
    /\ LockFree
    /\ IF id \in DOMAIN sessions
       THEN /\ sessions' = RemoveAll(sessions, {id})
            /\ chan' = DropReceivers(chan, {id})
            /\ child' = [child EXCEPT ![id] = "exited"]
            /\ cmd' = Returned("close", id, <<>>, "Ok", Unit, <<>>)
       ELSE /\ cmd' = Returned("close", id, <<>>, NotFound(id), Unit, <<>>)
            /\ UNCHANGED <<sessions, chan, child>>
    /\ UNCHANGED <<inflight, nextId, ptySize, ptyOut, ptyIn, flushed,
                   pump, writerLock, prime, pumped, drained, wlog>>
    /\ UNCHANGED appVars

\* state.lock() and sessions.remove(&session_id): the PtySession is dropped.
CloseSession(id) ==
    /\ LockFree
    /\ IF id \in DOMAIN sessions
       THEN /\ sessions' = RemoveAll(sessions, {id})
            /\ chan' = DropReceivers(chan, {id})
            /\ cmd' = Returned("close", id, <<>>, "Ok", Unit, <<>>)
       ELSE /\ cmd' = Returned("close", id, <<>>, NotFound(id), Unit, <<>>)
            /\ UNCHANGED <<sessions, chan>>
    /\ UNCHANGED <<inflight, nextId, ptySize, child, ptyOut, ptyIn, flushed,
                   pump, writerLock, prime, pumped, drained, wlog>>
    /\ UNCHANGED appVars

\* ------------------------------------------------------ close_all_sessions
\* CloseAllSessions that keeps the record of the largest identifier.
CloseAllButLast ==
    LET gone == {i \in DOMAIN sessions : \E j \in DOMAIN sessions : j > i}
    IN  /\ LockFree
        /\ sessions' = RemoveAll(sessions, gone)
        /\ chan' = DropReceivers(chan, gone)
        /\ cmd' = Returned("close_all", 0, <<>>, "Ok", Unit,
                           <<Cardinality(DOMAIN sessions)>>)
        /\ UNCHANGED <<inflight, nextId, ptySize, child, ptyOut, ptyIn, flushed,
                       pump, writerLock, prime, pumped, drained, wlog>>
        /\ UNCHANGED appVars

\* CloseAllSessions that refuses an empty registry.
CloseAllNonEmpty ==
    /\ LockFree
    /\ sessions' = RemoveAll(sessions, DOMAIN sessions)
    /\ chan' = DropReceivers(chan, DOMAIN sessions)
    /\ cmd' = Returned("close_all", 0, <<>>,
                       IF DOMAIN sessions = {} THEN "No sessions" ELSE "Ok", Unit,
                       <<Cardinality(DOMAIN sessions)>>)
    /\ UNCHANGED <<inflight, nextId, ptySize, child, ptyOut, ptyIn, flushed,
                   pump, writerLock, prime, pumped, drained, wlog>>
    /\ UNCHANGED appVars

\* len(), clear(), the count in the log line, and Ok(()).
CloseAllSessions ==
    /\ LockFree
    /\ sessions' = RemoveAll(sessions, DOMAIN sessions)
    /\ chan' = DropReceivers(chan, DOMAIN sessions)
    /\ cmd' = Returned("close_all", 0, <<>>, "Ok", Unit,
                       <<Cardinality(DOMAIN sessions)>>)
    /\ UNCHANGED <<inflight, nextId, ptySize, child, ptyOut, ptyIn, flushed,
                   pump, writerLock, prime, pumped, drained, wlog>>
    /\ UNCHANGED appVars

\* -------------------------------------------------------- get_all_sessions
\* History, kept in the argument of a list: the identifier and the created name
\* of the rename that was the last command to return before it, when that
\* rename followed the create of its session into an empty registry.
AfterRename ==
    IF cmd.op = "rename" /\ cmd.res = "Ok" /\ cmd.arg # <<>>
    THEN <<cmd.id, cmd.arg[1]>>
    ELSE <<>>

\* GetAllSessions that also shows the sessions whose create has not inserted
\* them yet.
GetAllSessionsEarly ==
    /\ LockFree
    /\ cmd' = Returned("list", 0, AfterRename, "Ok",
                       <<{Info(sessions[i]) : i \in DOMAIN sessions}
                           \cup {Info(inflight[i]) : i \in DOMAIN inflight}>>, <<>>)
    /\ UNCHANGED <<sessions, inflight, nextId, ptySize, child, ptyOut, ptyIn,
                   flushed, pump, chan, writerLock, prime, pumped, drained,
                   wlog>>
    /\ UNCHANGED appVars

\* GetAllSessions that probes every session's channel and loses what it takes.
GetAllSessionsProbing ==
    /\ LockFree
    /\ cmd' = Returned("list", 0, AfterRename, "Ok",
                       <<{Info(sessions[i]) : i \in DOMAIN sessions}>>, <<>>)
    /\ chan' = [i \in Ids |-> IF i \in DOMAIN sessions /\ chan[i] # <<>>
                              THEN Tail(chan[i]) ELSE chan[i]]
    /\ UNCHANGED <<sessions, inflight, nextId, ptySize, child, ptyOut, ptyIn,
                   flushed, pump, writerLock, prime, pumped, drained, wlog>>
    /\ UNCHANGED appVars

\* The infos of sessions.values(), in no particular order.
GetAllSessions ==
    /\ LockFree
    /\ cmd' = Returned("list", 0, AfterRename, "Ok",
                       <<{Info(sessions[i]) : i \in DOMAIN sessions}>>, <<>>)
    /\ UNCHANGED <<sessions, inflight, nextId, ptySize, child, ptyOut, ptyIn,
                   flushed, pump, chan, writerLock, prime, pumped, drained,
                   wlog>>
    /\ UNCHANGED appVars

\* ------------------------------------------------------------- lib.rs run
\* After setup: operator_state and orchestrator_state are both a
\* Mutex<Option<CommandChild>>, and every state::<Mutex<Option<CommandChild>>>()
\* of the run loop names the one managed value of that type: child_state.

\* RunEvent::Ready: the start task is spawned.
RunReady ==
    /\ app.event = "Setup"
    /\ app' = [event |-> "Ready", task |-> "orchestrator"]
    /\ UNCHANGED <<child_state, sidecars, monitor, status, emitted, probed>>
    /\ UNCHANGED <<network_monitor, reply>>
    /\ UNCHANGED terminalVars

\* The start task's first half: spawn the orchestrator and store its child.
StartOrchestrator(ok) ==
    /\ app.event = "Ready" /\ app.task = "orchestrator"
    /\ app' = [app EXCEPT !.task = "operator"]
    /\ IF ok
       THEN /\ sidecars' = [sidecars EXCEPT !["orchestrator"].proc = "running"]
            /\ child_state' = Some("orchestrator")
       ELSE UNCHANGED <<sidecars, child_state>>
    /\ UNCHANGED <<monitor, status, emitted, probed>>
    /\ UNCHANGED <<network_monitor, reply>>
    /\ UNCHANGED terminalVars

\* The start task's second half: spawn the operator and store its child; the
\* CommandChild stored before is dropped, which kills nothing.
StartOperator(ok) ==
    /\ app.event = "Ready" /\ app.task = "operator"
    /\ app' = [app EXCEPT !.task = "done"]
    /\ IF ok
       THEN /\ sidecars' = [sidecars EXCEPT !["operator"].proc = "running"]
            /\ child_state' = Some("operator")
       ELSE UNCHANGED <<sidecars, child_state>>
    /\ UNCHANGED <<monitor, status, emitted, probed>>
    /\ UNCHANGED <<network_monitor, reply>>
    /\ UNCHANGED terminalVars

\* CommandEvent::Terminated: a sidecar ended by itself; it is only logged.
SidecarTerminated(name) ==
    /\ sidecars[name].proc = "running"
    /\ sidecars' = [sidecars EXCEPT ![name].proc = "exited"]
    /\ UNCHANGED <<app, child_state, monitor, status, emitted, probed>>
    /\ UNCHANGED <<network_monitor, reply>>
    /\ UNCHANGED terminalVars

\* RunEvent::Exit: take the managed child and kill it, twice over.
RunExit ==
    /\ app.event = "Ready"
    /\ app' = [app EXCEPT !.event = "Exit"]
    /\ child_state' = None
    /\ sidecars' = IF child_state = None
                   THEN sidecars
                   ELSE [sidecars EXCEPT ![child_state[1]] =
                            [proc |-> "exited", kill |-> TRUE]]
    /\ UNCHANGED <<monitor, status, emitted, probed>>
    /\ UNCHANGED <<network_monitor, reply>>
    /\ UNCHANGED terminalVars

\* ------------------------------------------------------ network_monitor.rs
\* update_status: store and emit only when the stored status differs.
UpdateStatus(online) ==
    IF status.online # online
    THEN /\ status' = [online |-> online]
         /\ emitted' = Append(emitted, [online |-> online])
    ELSE UNCHANGED <<status, emitted>>

\* start_monitoring: the initial check, then the build's monitoring task.
StartMonitoring(initial_status, os) ==
    /\ monitor.pc = "new"
    /\ Len(probed) < MaxProbes
    /\ probed' = Append(probed, initial_status)
    /\ UpdateStatus(initial_status)
    /\ monitor' = [pc |-> IF os = "macos" THEN "macos" ELSE "connect",
                   last_status |-> TRUE]
    /\ UNCHANGED <<app, child_state, sidecars>>
    /\ UNCHANGED <<network_monitor, reply>>
    /\ UNCHANGED terminalVars

\* start_macos_monitoring: one turn of the polling loop.
MacosTick(current_status) ==
    /\ monitor.pc = "macos"
    /\ Len(probed) < MaxProbes
    /\ probed' = Append(probed, current_status)
    /\ IF current_status # monitor.last_status
       THEN /\ UpdateStatus(current_status)
            /\ monitor' = [monitor EXCEPT !.last_status = current_status]
       ELSE UNCHANGED <<status, emitted, monitor>>
    /\ UNCHANGED <<app, child_state, sidecars>>
    /\ UNCHANGED <<network_monitor, reply>>
    /\ UNCHANGED terminalVars

\* start_linux_monitoring: the D-Bus connection, proxy and signal stream; a
\* failure of any of them ends the task.
LinuxConnect(ok) ==
    /\ monitor.pc = "connect"
    /\ monitor' = [monitor EXCEPT !.pc = IF ok THEN "linux" ELSE "ended"]
    /\ UNCHANGED <<app, child_state, sidecars, status, emitted, probed>>
    /\ UNCHANGED <<network_monitor, reply>>
    /\ UNCHANGED terminalVars

\* start_linux_monitoring: one StateChanged signal.
LinuxSignal(state) ==
    /\ monitor.pc = "linux"
    /\ Len(probed) < MaxProbes
    /\ probed' = Append(probed, state >= 70)
    /\ UpdateStatus(state >= 70)
    /\ UNCHANGED <<app, child_state, sidecars, monitor>>
    /\ UNCHANGED <<network_monitor, reply>>
    /\ UNCHANGED terminalVars

\* ----------------------------------------------------- network_commands.rs
\* get_network_status: the status of the managed monitor.  start_network_
\* monitoring (StartMonitoring) leaves its `_network_monitor` alone and runs a
\* NetworkMonitor::new of its own, whose status and events are those above.
\* History, kept with the reply: how many events had been emitted.
GetNetworkStatus ==
    /\ reply' = Some([status |-> network_monitor.status, seen |-> Len(emitted)])
    /\ UNCHANGED <<app, child_state, sidecars, monitor, status, emitted, probed,
                   network_monitor>>
    /\ UNCHANGED terminalVars

\* ----------------------------------------------------------- specification
Next(b) ==
    \/ \E name \in Names, size \in Geometry,
          initial_command \in Commands, now \in Times :
          CreateSpawn(b, name, size[1], size[2], initial_command, now)
    \/ \E id \in Ids : CreateInsert(id)
    \/ \E err \in CreateErrors : CreateFail(err)
    \/ \E id \in Ids : ChildEmit(b, id)
    \/ \E id \in Ids : ChildExit(b, id)
    \/ \E id \in Ids, n \in 1..BufSize : PumpRead(id, n)
    \/ \E id \in Ids : PumpEof(id)
    \/ \E id \in Ids : PumpReadErr(b, id)
    \/ \E id \in Ids : PumpSend(id)
    \/ \E id \in Ids : PrimeLock(id)
    \/ \E id \in Ids, n \in 1..2 : PrimeWrite(id, n)
    \/ \E id \in Ids : PrimeWriteErr(id)
    \/ \E id \in Ids, ok \in BOOLEAN : PrimeFlush(id, ok)
    \/ \E id \in Ids, data \in WriteData : WriteBegin(b, id, data)
    \/ WriteLock
    \/ \E n \in 1..2 : WriteSome(n)
    \/ WriteErr
    \/ \E ok \in BOOLEAN : WriteFlush(ok)
    \/ \E id \in Ids : ReadBegin(id)
    \/ ReadRecv
    \/ ReadEmpty
    \/ ReadDisconnected
    \/ \E id \in Ids, size \in Sizes : ResizeBegin(id, size[2], size[1])
    \/ \E ok \in BOOLEAN : ResizeCall(ok)
    \/ \E id \in Ids, new_name \in NewNames : RenameSession(id, new_name)
    \/ \E id \in Ids : CloseSession(id)
    \/ CloseAllSessions
    \/ GetAllSessions

\* Two sessions, few events.
Spec == Init /\ [][Next(Whole)]_vars

\* One session, more events.
SpecIo == Init /\ [][Next(Single)]_vars

\* What the scheduling guarantees: a thread that can take a step takes it (the
\* pump's read returning data or end of file and its send, the initial-command
\* thread, and the steps of a command that has started), and a caller that
\* keeps polling read_from_pty on every identifier.  No failure of an OS call,
\* and no step of a shell, is guaranteed to happen.
Fairness ==
    /\ \A id \in Ids : /\ WF_vars(\E n \in 1..BufSize : PumpRead(id, n))
                       /\ WF_vars(PumpEof(id))
                       /\ WF_vars(PumpSend(id))
                       /\ WF_vars(PrimeLock(id))
                       /\ WF_vars(\E n \in 1..2 : PrimeWrite(id, n))
                       /\ WF_vars(PrimeFlush(id, TRUE))
                       /\ WF_vars(CreateInsert(id))
                       /\ SF_vars(ReadBegin(id))
    /\ WF_vars(WriteLock)
    /\ WF_vars(\E n \in 1..2 : WriteSome(n))
    /\ WF_vars(WriteFlush(TRUE))
    /\ WF_vars(ReadRecv \/ ReadEmpty \/ ReadDisconnected)
    /\ WF_vars(ResizeCall(TRUE))

\* Two sessions, few events, under the scheduling's guarantees.
SpecLive == Init /\ [][Next(Whole)]_vars /\ Fairness

\* One session, two events, under the scheduling's guarantees.
SpecIoLive == Init /\ [][Next(Stream)]_vars /\ Fairness

\* The application shell: the sidecars' start and exit, and the monitor.
NextApp ==
    \/ RunReady
    \/ \E ok \in BOOLEAN : StartOrchestrator(ok)
    \/ \E ok \in BOOLEAN : StartOperator(ok)
    \/ \E name \in Companions : SidecarTerminated(name)
    \/ RunExit
    \/ \E initial_status \in BOOLEAN, os \in TargetOs :
          StartMonitoring(initial_status, os)
    \/ \E current_status \in BOOLEAN : MacosTick(current_status)
    \/ \E ok \in BOOLEAN : LinuxConnect(ok)
    \/ \E state \in NmStates : LinuxSignal(state)
    \/ GetNetworkStatus

SpecApp == Init /\ [][NextApp]_vars

\* ------------------------------------------------------------- properties
\* Everything but cmd.
rest == <<sessions, inflight, nextId, ptySize, child, ptyOut, ptyIn, flushed,
          pump, chan, writerLock, prime, pumped, drained, wlog>>

Closed == "PTY session closed"

\* The commands that name a session.
SessionOps == {"write", "read", "resize", "rename", "close"}

\* C1: once an identifier has been removed from the registry it stays removed,
\* and every step in which a write, read, resize, rename or close naming it
\* does anything is the return of "Session not found" with nothing else changed.
C1_RemovedIsNotFound ==
    [][/\ \A id \in Ids : Removed(id) => Removed(id)'
       /\ (cmd' # cmd /\ cmd'.op \in SessionOps /\ Removed(cmd'.id))
            => /\ cmd'.pc = "done"
               /\ cmd'.res = NotFound(cmd'.id)
               /\ UNCHANGED rest]_vars

\* C1 witness: a read of a removed session has returned "Session not found".
C1_Witness ==
    /\ cmd.op = "read" /\ cmd.pc = "done"
    /\ Removed(cmd.id)
    /\ cmd.res = NotFound(cmd.id)

\* C2: close_all removes exactly the records registered when it runs, all n of
\* them, and leaves the registry empty (creates not yet inserted are not
\* touched); a read or write naming a removed identifier returns
\* "Session not found".
C2_CloseAllRemovesAll ==
    [][/\ (cmd' # cmd /\ cmd'.op = "close_all")
            => /\ DOMAIN sessions' = {}
               /\ \A id \in DOMAIN sessions : Removed(id)'
               /\ cmd'.log = <<Cardinality(DOMAIN sessions)>>
               /\ inflight' = inflight
       /\ (cmd' # cmd /\ cmd'.op \in {"read", "write"} /\ Removed(cmd'.id))
            => cmd'.res = NotFound(cmd'.id)]_vars

\* C2 witness: close_all has just removed two sessions.
C2_Witness ==
    /\ cmd.op = "close_all"
    /\ cmd.log = <<2>>
    /\ Cardinality({id \in Ids : Removed(id)}) = 2

\* C3 as stated: close_all succeeds and returns the number of sessions removed.
C3_ReturnsCount ==
    cmd.op = "close_all" => cmd.res = "Ok" /\ cmd.val = cmd.log

\* C3, amended: close_all succeeds in every state in which it runs, returns the
\* unit value, and puts the number of sessions it removed in its log line.
C3_NeverFails ==
    [][(cmd' # cmd /\ cmd'.op = "close_all")
          => /\ cmd'.pc = "done"
             /\ cmd'.res = "Ok"
             /\ cmd'.val = Unit
             /\ cmd'.log = <<Cardinality(DOMAIN sessions) - Cardinality(DOMAIN sessions')>>]_vars

\* C3 witness: close_all has returned the unit value after removing a session
\* whose pump was about to send a chunk.
C3_Witness ==
    /\ cmd.op = "close_all" /\ cmd.res = "Ok" /\ cmd.val = Unit
    /\ cmd.log = <<1>>
    /\ \E id \in Ids : Removed(id) /\ pump[id].pc = "send"

\* A step in which the drain loop of a read ends and the read returns.
ReadReturns == cmd.op = "read" /\ cmd.pc = "drain" /\ cmd'.pc = "done"

\* C4: read returns "PTY session closed" only from the drain loop of a
\* registered session, when the pump has ended, the channel is empty and the
\* call drained nothing; every chunk taken from the channel is added to the
\* call's output, and a call that drained something returns it as Ok.
C4_ClosedOnlyWhenDrainedNothing ==
    [][/\ (cmd' # cmd /\ cmd'.res = Closed)
            => /\ ReadReturns
               /\ cmd.id \in DOMAIN sessions
               /\ PumpDone(cmd.id)
               /\ chan[cmd.id] = <<>>
               /\ cmd.out = <<>>
       /\ (cmd.op = "read" /\ cmd.pc = "drain" /\ Len(chan'[cmd.id]) < Len(chan[cmd.id]))
            => /\ cmd'.pc = "drain"
               /\ cmd'.out = cmd.out \o Head(chan[cmd.id])
               /\ cmd'.out # <<>>
       /\ (ReadReturns /\ cmd.out # <<>>)
            => /\ cmd'.res = "Ok"
               /\ cmd'.out = cmd.out
               /\ cmd'.val = ReadText(cmd.out)]_vars

\* C4 witness: a read that found the channel disconnected has returned the
\* bytes that were still buffered.
C4_Witness ==
    /\ cmd.op = "read" /\ cmd.pc = "done"
    /\ cmd.log = <<"Disconnected">>
    /\ cmd.res = "Ok"
    /\ cmd.out # <<>>

\* C5: when the drain loop of a read has drained nothing, the channel is empty
\* and the pump has not ended, the read returns Ok with the empty string and
\* nothing but the command's result changes.
C5_EmptyIsOk ==
    [][(/\ cmd.op = "read" /\ cmd.pc = "drain"
        /\ cmd.out = <<>>
        /\ chan[cmd.id] = <<>>
        /\ ~PumpDone(cmd.id)
        /\ cmd' # cmd)
          => /\ cmd'.pc = "done"
             /\ cmd'.res = "Ok"
             /\ cmd'.val = <<>>
             /\ UNCHANGED rest]_vars

\* C5 witness: a read of a registered session with a running pump has returned
\* the empty string.
C5_Witness ==
    /\ cmd.op = "read" /\ cmd.pc = "done"
    /\ cmd.id \in DOMAIN sessions
    /\ ~PumpDone(cmd.id)
    /\ cmd.res = "Ok" /\ cmd.val = <<>>
    /\ cmd.log = <<"Empty">>

\* The read that has returned is the first command after the create of its
\* session.
FirstRead == cmd.op = "read" /\ cmd.pc = "done" /\ cmd.arg = <<TRUE>>

\* C6 as stated: the first read after a create never returns an error.
C6_FirstReadNeverFails == FirstRead => cmd.res = "Ok"

\* C6, amended: the first read after a create returns Ok with the text of the
\* bytes it drained, which are the first bytes of the shell's output, or
\* "PTY session closed" when the pump's read has failed and nothing is
\* buffered; it returns no other error.
C6_FirstReadOkOrClosed ==
    FirstRead =>
        /\ cmd.id \in DOMAIN sessions
        /\ cmd.out = drained[cmd.id]
        /\ \/ /\ cmd.res = "Ok"
              /\ cmd.val = ReadText(cmd.out)
              /\ \A k \in 1..Len(cmd.out) : cmd.out[k] = ShellByte(cmd.id, k)
           \/ /\ cmd.res = Closed
              /\ cmd.out = <<>>
              /\ pump[cmd.id].pc = "err"
              /\ chan[cmd.id] = <<>>

\* C6 witness: the first read has returned bytes of the shell that end inside
\* a character.
C6_Witness ==
    /\ FirstRead
    /\ cmd.res = "Ok"
    /\ cmd.out # <<>>
    /\ ~Utf8Valid(cmd.out)

\* C7 as stated: once the shell of a registered session has exited, a caller
\* that keeps polling read on it eventually receives "PTY session closed",
\* unless the session is removed first.
C7_ExitLeadsToClosed ==
    \A id \in Ids :
        (id \in DOMAIN sessions /\ child[id] = "exited")
            ~> \/ id \notin DOMAIN sessions
               \/ cmd.op = "read" /\ cmd.id = id /\ cmd.pc = "done" /\ cmd.res = Closed

\* C8: the bytes the reads of a session have drained are a prefix of the bytes
\* its pump has read; while the program owns the session, the bytes the pump
\* has read are exactly the drained bytes, then the chunks waiting in the
\* channel in order, then the chunk the pump is about to send.
C8_DrainedIsPrefix ==
    \A id \in Ids :
        /\ IsPrefix(drained[id], pumped[id])
        /\ Owned(id) =>
              pumped[id] = drained[id] \o Flat(chan[id])
                             \o (IF pump[id].pc = "send" THEN pump[id].buf ELSE <<>>)

\* C8 witness: reads have drained a first chunk while later chunks wait, one in
\* the channel and one in the pump's buffer.
C8_Witness ==
    \E id \in DOMAIN sessions :
        /\ drained[id] # <<>>
        /\ chan[id] # <<>>
        /\ pump[id].pc = "send"

RECURSIVE Payloads(_)
\* The payloads of the acquisitions of a writer, one after another.
Payloads(log) ==
    IF log = <<>> THEN <<>> ELSE Head(log).data \o Payloads(Tail(log))

RECURSIVE Arrived(_)
\* The bytes the acquisitions of a writer have written, one after another.
Arrived(log) ==
    IF log = <<>> THEN <<>>
    ELSE SubSeq(Head(log).data, 1, Head(log).k) \o Arrived(Tail(log))

\* C9 as stated, for sessions without an initial command: whenever the writer
\* is free, the pty has received the complete payloads of the write calls in
\* the order they acquired the writer.
C9_CompletePayloads ==
    \A id \in Ids :
        (prime[id].pc = "none" /\ writerLock[id] = "free")
            => ptyIn[id] = Payloads(wlog[id])

\* C9, amended: the pty has received, in the order the writers acquired the
\* mutex, what each of them wrote: the whole payload of each that succeeded
\* and a prefix of the payload of each that failed; only the latest
\* acquisition can still be writing, and it holds the mutex.
C9_WritesSerialized ==
    \A id \in Ids :
        /\ ptyIn[id] = Arrived(wlog[id])
        /\ \A j \in 1..Len(wlog[id]) :
              /\ wlog[id][j].k <= Len(wlog[id][j].data)
              /\ wlog[id][j].st = "ok" => wlog[id][j].k = Len(wlog[id][j].data)
              /\ wlog[id][j].st = "busy" =>
                    j = Len(wlog[id]) /\ writerLock[id] = wlog[id][j].who

\* C9 witness: a write call and then the initial-command thread have acquired
\* the writer of a session and both payloads have arrived.
C9_Witness ==
    \E id \in Ids :
        /\ Len(wlog[id]) = 2
        /\ wlog[id][1].who = "cmd" /\ wlog[id][1].st = "ok"
        /\ wlog[id][2].who = "prime" /\ wlog[id][2].st = "ok"
        /\ ptyIn[id] = wlog[id][1].data \o wlog[id][2].data

\* The payload is the end of what the pty has received.
EndsWith(bytes, payload) ==
    /\ Len(bytes) >= Len(payload)
    /\ SubSeq(bytes, Len(bytes) - Len(payload) + 1, Len(bytes)) = payload

\* C10: when a write that found its session returns Ok, it has written every
\* byte of its payload, the payload is the end of what the pty received and
\* all of it is flushed; a write that did not write its whole payload returns
\* "Failed to write to PTY", and the only other result is "Failed to flush PTY".
C10_OkMeansWrittenAndFlushed ==
    [][(cmd.op = "write" /\ cmd.pc # "done" /\ cmd'.pc = "done")
          => /\ cmd'.op = "write" /\ cmd'.id = cmd.id
             /\ cmd'.res = "Ok"
                   => /\ cmd.out = cmd.arg
                      /\ EndsWith(ptyIn'[cmd.id], cmd.arg)
                      /\ flushed'[cmd.id] = Len(ptyIn'[cmd.id])
             /\ cmd.out # cmd.arg => cmd'.res = "Failed to write to PTY"
             /\ cmd'.res \in {"Ok", "Failed to write to PTY", "Failed to flush PTY"}]_vars

\* C10 witness: a write of a payload of two bytes has returned Ok.
C10_Witness ==
    /\ cmd.op = "write" /\ cmd.pc = "done" /\ cmd.res = "Ok"
    /\ Len(cmd.arg) = 2
    /\ EndsWith(ptyIn[cmd.id], cmd.arg)
    /\ flushed[cmd.id] = Len(ptyIn[cmd.id])

\* The command that holds the registry mutex is inside a call on the pty:
\* write_all or flush of the writer, or resize of the master.
InOsCall == cmd.pc \in {"write", "resize"}

\* C11 as stated: whenever a command is inside a write, flush or resize call on
\* a pty, it does not hold the registry mutex.
C11_NoLockAcrossOsCall == InOsCall => LockFree

\* C12 as stated: while a write or resize on a registered session is inside its
\* call on the pty, where it can stall, a read of every other registered
\* session can take the registry mutex and go on to its drain loop.
C12_OtherSessionProceeds ==
    \A a \in DOMAIN sessions, b \in DOMAIN sessions :
        (a # b /\ InOsCall /\ cmd.id = a)
            => ENABLED (ReadBegin(b) /\ cmd'.pc = "drain")

\* The entries a list has returned.
Listed == cmd.val[1]

\* C13: the entries a list returns are the metadata of exactly the records in
\* the registry at the step in which it runs, which changes no record: no
\* entry for a session that was removed or whose create has not inserted it.
C13_ListIsSnapshot ==
    [][(cmd' # cmd /\ cmd'.op = "list")
          => /\ cmd'.pc = "done" /\ cmd'.res = "Ok"
             /\ sessions' = sessions
             /\ Listed' = {Info(sessions'[i]) : i \in DOMAIN sessions'}
             /\ \A e \in Listed' :
                   /\ e.id \in DOMAIN sessions
                   /\ e.id \notin DOMAIN inflight
                   /\ ~Removed(e.id)
                   /\ e = Info(sessions[e.id])]_vars

\* C13 witness: a list has returned the one registered session, renamed, while
\* the create of another session had not inserted it yet.
C13_Witness ==
    /\ cmd.op = "list" /\ cmd.pc = "done"
    /\ \E e \in Listed : e.name = "bar" /\ Listed = {e}
    /\ DOMAIN inflight # {}

\* The command c is a write that returned a write or flush error.
FailedWrite(c) ==
    /\ c.op = "write" /\ c.pc = "done"
    /\ c.res \in {"Failed to write to PTY", "Failed to flush PTY"}

\* C14: the step in which a write returns a write or flush error leaves the
\* registry, with the session in it, and the channel, pump and drained bytes
\* of every session as they were; the next command, if it is a close of that
\* session, returns Ok, and if it is a read of it, goes on to drain the channel.
C14_FailedWriteKeepsSession ==
    [][/\ (cmd' # cmd /\ FailedWrite(cmd'))
            => /\ cmd'.id \in DOMAIN sessions'
               /\ UNCHANGED <<sessions, chan, pump, pumped, drained>>
       /\ (FailedWrite(cmd) /\ cmd' # cmd /\ cmd'.id = cmd.id)
            => /\ cmd'.op = "close" => cmd'.res = "Ok"
               /\ cmd'.op = "read" => cmd'.pc = "drain"]_vars

\* C14 witness: after a write of the session failed, a read has returned bytes
\* that were buffered.
C14_Witness ==
    /\ cmd.op = "read" /\ cmd.pc = "done" /\ cmd.res = "Ok"
    /\ cmd.out # <<>>
    /\ \E j \in 1..Len(wlog[cmd.id]) :
          wlog[cmd.id][j].who = "cmd" /\ wlog[cmd.id][j].st = "err"

\* The shell of the session has exited and its pump has ended.
Dead(id) == child[id] = "exited" /\ PumpDone(id)

\* C15: a registered session whose shell has exited and whose pump has ended
\* leaves the registry only in a close of its identifier or a close_all; the
\* step in which a pump ends and the step in which a read returns "PTY session
\* closed" change no record; and a list shows every such session.
C15_DeadStaysListed ==
    [][/\ \A id \in DOMAIN sessions :
            /\ (Dead(id) /\ id \notin DOMAIN sessions')
                  => /\ cmd' # cmd
                     /\ \/ cmd'.op = "close_all"
                        \/ cmd'.op = "close" /\ cmd'.id = id
            /\ (~PumpDone(id) /\ PumpDone(id)') => sessions' = sessions
       /\ (cmd' # cmd /\ cmd'.res = Closed)
            => /\ sessions' = sessions
               /\ cmd'.id \in DOMAIN sessions'
       /\ (cmd' # cmd /\ cmd'.op = "list")
            => \A id \in DOMAIN sessions :
                  Dead(id) => Info(sessions[id]) \in Listed']_vars

\* C15 witness: a list has shown a session whose shell has exited and whose
\* pump has ended.
C15_Witness ==
    /\ cmd.op = "list" /\ cmd.pc = "done"
    /\ \E id \in DOMAIN sessions : Dead(id) /\ Info(sessions[id]) \in Listed

\* The list that has returned is the last of the three commands create with the
\* name "foo", into an empty registry, rename of the created session, list.
RoundTrip == cmd.op = "list" /\ cmd.arg # <<>> /\ cmd.arg[2] = "foo"

\* C16: the list of a create with the name "foo" into an empty registry, a
\* rename of the created identifier to "bar" and a list has exactly one entry,
\* with the created identifier and the name "bar".
C16_RoundTripShowsNewName ==
    RoundTrip =>
        /\ cmd.res = "Ok"
        /\ Cardinality(Listed) = 1
        /\ \A e \in Listed : e.id = cmd.arg[1] /\ e.name = "bar"

\* C16 witness: the list of such a round trip has returned while the session's
\* shell had already written output.
C16_Witness ==
    /\ RoundTrip
    /\ Listed # {}
    /\ pumped[cmd.arg[1]] # <<>>

\* C17: a rename of a registered session changes the name of its record and
\* nothing else: the other fields of the record, the other records, and every
\* pty, writer, channel and pump stay as they were; a rename of an identifier
\* that is not registered changes nothing.
C17_RenameChangesNameOnly ==
    [][(cmd' # cmd /\ cmd'.op = "rename")
          => /\ UNCHANGED <<inflight, nextId, ptySize, child, ptyOut, ptyIn, flushed,
                            pump, chan, writerLock, prime, pumped, drained, wlog>>
             /\ DOMAIN sessions' = DOMAIN sessions
             /\ \A i \in DOMAIN sessions :
                   IF i = cmd'.id /\ cmd'.res = "Ok"
                   THEN /\ sessions'[i].name \in NewNames
                        /\ sessions'[i] = [sessions[i] EXCEPT !.name = sessions'[i].name]
                   ELSE sessions'[i] = sessions[i]
             /\ cmd'.res = "Ok" <=> cmd'.id \in DOMAIN sessions]_vars

\* C17 witness: a rename has returned Ok while another session with another
\* name is registered and a chunk waits in a channel.
C17_Witness ==
    /\ cmd.op = "rename" /\ cmd.res = "Ok"
    /\ \E i \in DOMAIN sessions : i # cmd.id /\ sessions[i].name # sessions[cmd.id].name
    /\ \E i \in DOMAIN sessions : chan[i] # <<>>

\* C18: a resize that returns Ok has set the geometry of its session's pty to
\* the rows and columns it was given; one that returns an error has left it;
\* no step of a resize changes the geometry of another pty, a channel, a pump
\* or the bytes pumped and drained so far.
C18_ResizeSetsGeometryOnly ==
    [][/\ (cmd' # cmd /\ cmd'.op = "resize" /\ cmd'.pc = "resize")
            => /\ cmd'.arg \in Sizes
               /\ UNCHANGED rest
       /\ (cmd.op = "resize" /\ cmd.pc = "resize" /\ cmd'.pc = "done")
            => /\ cmd'.res = "Ok" => ptySize'[cmd.id] = cmd.arg
               /\ cmd'.res # "Ok" => ptySize' = ptySize
               /\ \A i \in Ids \ {cmd.id} : ptySize'[i] = ptySize[i]
               /\ UNCHANGED <<sessions, chan, pump, ptyOut, pumped, drained>>]_vars

\* C18 witness: a resize has returned Ok on a session with two chunks waiting
\* in its channel.
C18_Witness ==
    /\ cmd.op = "resize" /\ cmd.pc = "done" /\ cmd.res = "Ok"
    /\ ptySize[cmd.id] = <<30, 100>>
    /\ Len(chan[cmd.id]) = 2

\* C19: a list returns one entry for each registered session, with that
\* session's id, kind, name and creation time, and changes nothing but the
\* command's result.
C19_ListChangesNothing ==
    [][(cmd' # cmd /\ cmd'.op = "list")
          => /\ UNCHANGED rest
             /\ Cardinality(Listed') = Cardinality(DOMAIN sessions)
             /\ \A i \in DOMAIN sessions :
                   \E e \in Listed' :
                       /\ DOMAIN e = {"id", "session_type", "name", "created_at"}
                       /\ e.id = i
                       /\ e.session_type = sessions[i].session_type
                       /\ e.name = sessions[i].name
                       /\ e.created_at = sessions[i].created_at]_vars

\* C19 witness: a list has returned two entries while a chunk waits in a
\* channel.
C19_Witness ==
    /\ cmd.op = "list" /\ cmd.pc = "done"
    /\ Cardinality(Listed) = 2
    /\ \E i \in DOMAIN sessions : chan[i] # <<>>

\* C20: every record is stored under its own identifier, which no other
\* record and no create in progress has; a create that returns Ok has just
\* inserted the record it describes under a new identifier; and a record
\* leaves the registry only in a close of its identifier that returns Ok or in
\* a close_all.
C20_RegisteredUntilClosed ==
    [][/\ \A i \in DOMAIN sessions' :
            /\ sessions'[i].id = i
            /\ i \notin DOMAIN inflight'
            /\ \A j \in DOMAIN sessions' : sessions'[i].id = sessions'[j].id => i = j
       /\ (cmd' # cmd /\ cmd'.op = "create" /\ cmd'.res = "Ok")
            => /\ cmd'.id \notin DOMAIN sessions
               /\ cmd'.id \in DOMAIN sessions'
               /\ cmd'.val = <<Info(sessions'[cmd'.id])>>
       /\ \A i \in DOMAIN sessions :
            i \notin DOMAIN sessions'
                => /\ cmd' # cmd
                   /\ \/ cmd'.op = "close_all"
                      \/ cmd'.op = "close" /\ cmd'.id = i /\ cmd'.res = "Ok"]_vars

\* C20 witness: a close has removed one of two registered sessions and the
\* other is still registered.
C20_Witness ==
    /\ cmd.op = "close" /\ cmd.res = "Ok"
    /\ Removed(cmd.id)
    /\ \E i \in DOMAIN sessions : i # cmd.id

\* The geometry <<rows, cols>> create opens the pty at for the request
\* <<cols, rows>>.
Requested(size) ==
    <<IF size[2] = None THEN 24 ELSE size[2][1],
      IF size[1] = None THEN 80 ELSE size[1][1]>>

\* C21: the step of a create that generates the identifier opens that
\* session's pty at a requested geometry, with 24 rows and 80 columns for the
\* absent ones, and starts that session's pump and no other; the step in which
\* a create returns Ok adds one record, under the new identifier, of kind
\* Local, with the given or the default name, and returns its metadata.
C21_CreateOpensStartsRegisters ==
    [][/\ nextId' # nextId
            => /\ nextId' = nextId + 1
               /\ \E size \in Geometry : ptySize'[nextId'] = Requested(size)
               /\ pump[nextId'].pc = "none" /\ pump'[nextId'].pc = "read"
               /\ child'[nextId'] = "alive"
               /\ \A i \in Ids \ {nextId'} :
                     pump'[i] = pump[i] /\ ptySize'[i] = ptySize[i]
       /\ (cmd' # cmd /\ cmd'.op = "create" /\ cmd'.res = "Ok")
            => /\ DOMAIN sessions' = DOMAIN sessions \cup {cmd'.id}
               /\ cmd'.id \notin DOMAIN sessions
               /\ \A i \in DOMAIN sessions : sessions'[i] = sessions[i]
               /\ sessions'[cmd'.id].session_type = "Local"
               /\ sessions'[cmd'.id].created_at \in Times
               /\ \E name \in Names :
                     sessions'[cmd'.id].name =
                         IF name = None THEN DefaultName(cmd'.id) ELSE name[1]
               /\ cmd'.val = <<Info(sessions'[cmd'.id])>>
               /\ UNCHANGED <<pump, ptySize, child>>]_vars

\* C21 witness: a create without a name and without a size has returned the
\* metadata of a second record, whose pty has 24 rows and 80 columns.
C21_Witness ==
    /\ cmd.op = "create" /\ cmd.res = "Ok"
    /\ ptySize[cmd.id] = <<24, 80>>
    /\ sessions[cmd.id].name = DefaultName(cmd.id)
    /\ Cardinality(DOMAIN sessions) = 2

C23_RemovedPumpEnds ==
    \A id \in Ids : Removed(id) ~> PumpDone(id)

\* C24: close_all returns Ok whatever the pumps are doing; the channel of a
\* removed session holds nothing; and the step in which a pump sends for a
\* removed session ends that pump and changes nothing else: no channel, no
\* record and no command's result.
C24_CloseAllAmidPumps ==
    [][/\ (cmd' # cmd /\ cmd'.op = "close_all")
            => /\ cmd'.res = "Ok"
               /\ UNCHANGED <<pump, pumped, drained, ptyOut, child>>
       /\ \A id \in Ids :
            /\ Removed(id)' => chan'[id] = <<>>
            /\ (Removed(id) /\ pump[id].pc = "send" /\ pump'[id] # pump[id])
                  => /\ pump'[id].pc = "gone"
                     /\ \A j \in Ids \ {id} : pump'[j] = pump[j]
                     /\ UNCHANGED <<cmd, sessions, inflight, chan, drained>>]_vars

\* C24 witness: a pump that read bytes after close_all had removed its session
\* has ended on its send, and close_all is still the last command to return.
C24_Witness ==
    /\ cmd.op = "close_all" /\ cmd.res = "Ok"
    /\ \E id \in Ids :
          /\ Removed(id)
          /\ pump[id].pc = "gone"
          /\ pumped[id] # <<>>
          /\ drained[id] = <<>>

ReadSome == cmd.op = "read" /\ cmd.pc = "done" /\ cmd.out # <<>>

\* The characters of a text that are not U+FFFD.
Kept(text) == LET Keep(c) == c # Replacement IN SelectSeq(text, Keep)

RECURSIVE Covers(_, _)
\* The text accounts for the bytes from left to right: each character other
\* than U+FFFD for its own encoding, each U+FFFD for one to three bytes none
\* of which starts a character.
Covers(text, bytes) ==
    IF text = <<>> THEN bytes = <<>>
    ELSE LET after(n) == SubSeq(bytes, n + 1, Len(bytes))
         IN  IF Head(text) # Replacement
             THEN /\ IsPrefix(EncodeChar(Head(text)), bytes)
                  /\ Covers(Tail(text), after(Len(EncodeChar(Head(text)))))
             ELSE \E n \in 1..3 :
                    /\ n <= Len(bytes)
                    /\ \A i \in 1..n : ~DecodeOne(SubSeq(bytes, i, Len(bytes))).ok
                    /\ Covers(Tail(text), after(n))

\* C26: a read that drained at least one byte returns Ok; its text encodes to
\* exactly the drained bytes when they are valid UTF-8; otherwise the text has
\* a U+FFFD for each undecodable run and every decodable character in place.
C26_ReadTextNeverFails ==
    ReadSome =>
        /\ cmd.res = "Ok"
        /\ Utf8Valid(cmd.out) => AsBytes(cmd.val) = cmd.out
        /\ ~Utf8Valid(cmd.out) =>
              /\ \E k \in 1..Len(cmd.val) : cmd.val[k] = Replacement
              /\ Covers(cmd.val, cmd.out)

\* C26 witness: a read has returned a character followed by U+FFFD for bytes
\* that end inside a character.
C26_Witness ==
    /\ ReadSome
    /\ cmd.res = "Ok"
    /\ Len(cmd.val) = 2
    /\ cmd.val[1] # Replacement /\ cmd.val[2] = Replacement

RECURSIVE WholeChars(_, _, _, _)
\* The characters of a byte stream, decoded from position pos on, whose bytes
\* all lie between the positions from and to.
WholeChars(stream, pos, from, to) ==
    IF pos > Len(stream) THEN <<>>
    ELSE LET r == DecodeOne(SubSeq(stream, pos, Len(stream)))
         IN  IF ~r.ok THEN <<>>
             ELSE (IF pos >= from /\ pos + r.n - 1 <= to THEN <<r.cp>> ELSE <<>>)
                      \o WholeChars(stream, pos + r.n, from, to)

\* C27: the text a read returns holds, in order and unchanged, exactly the
\* characters of the shell's output whose bytes all lie among the bytes this
\* read drained, and U+FFFD only for bytes of characters that straddle the
\* first or the last byte it drained.
C27_SplitSparesWholeChars ==
    ReadSome =>
        LET id == cmd.id
            to == Len(drained[id])
            from == to - Len(cmd.out) + 1
            kept == Kept(cmd.val)
        IN  /\ cmd.out = SubSeq(drained[id], from, to)
            /\ kept = WholeChars(pumped[id], 1, from, to)
            /\ Len(cmd.val) - Len(kept) <= Len(cmd.out) - Len(AsBytes(kept))
            /\ Len(cmd.val) = Len(kept) <=> Len(AsBytes(kept)) = Len(cmd.out)

\* C27 witness: a second read has returned only the last byte of a character
\* whose first byte an earlier read had returned after a whole character.
C27_Witness ==
    /\ ReadSome
    /\ Len(drained[cmd.id]) > Len(cmd.out)
    /\ ~Utf8Valid(cmd.out)
    /\ Utf8Valid(drained[cmd.id])
    /\ Len(Utf8Chars(drained[cmd.id])) = 2

\* Nothing of the session j changes in the step.
SessionUnchanged(j) ==
    /\ (j \in DOMAIN sessions) = (j \in DOMAIN sessions')
    /\ j \in DOMAIN sessions => sessions'[j] = sessions[j]
    /\ child'[j] = child[j] /\ pump'[j] = pump[j] /\ chan'[j] = chan[j]
    /\ ptyOut'[j] = ptyOut[j] /\ ptyIn'[j] = ptyIn[j] /\ ptySize'[j] = ptySize[j]
    /\ writerLock'[j] = writerLock[j] /\ prime'[j] = prime[j]
    /\ pumped'[j] = pumped[j] /\ drained'[j] = drained[j]

\* The step is part of the death of the session id: its shell exits, its pump
\* ends, or a read or write of it returns an error.
Dies(id) ==
    \/ child[id] = "alive" /\ child'[id] = "exited"
    \/ ~PumpDone(id) /\ PumpDone(id)'
    \/ /\ cmd' # cmd /\ cmd'.id = id /\ cmd'.pc = "done"
       /\ cmd'.op \in {"read", "write"} /\ cmd'.res # "Ok"

\* C28: a step in which the shell of a session exits, its pump ends, or a read
\* or write of it returns an error changes nothing of any other session.
C28_DeathIsLocal ==
    [][\A id \in Ids : Dies(id) => \A j \in Ids \ {id} : SessionUnchanged(j)]_vars

\* C28 witness: a read of a session has found nothing to report while another
\* registered session's shell is gone or its pump has ended on a failed read.
C28_Witness ==
    /\ cmd.op = "read" /\ cmd.res = "Ok" /\ cmd.log = <<"Empty">>
    /\ \E j \in DOMAIN sessions :
          /\ j # cmd.id
          /\ pump[j].pc = "err"
          /\ pump[cmd.id].pc = "read"

\* C29: every result handed to the monitor that equals the stored status
\* changes nothing and emits nothing, and every result that differs from the
\* stored status is stored and emitted as one event carrying it.
C29_EmitsExactlyOnChange ==
    [][probed' # probed =>
         LET result == probed'[Len(probed')]
         IN  IF result = status.online
             THEN status' = status /\ emitted' = emitted
             ELSE /\ status' = [online |-> result]
                  /\ emitted' = Append(emitted, [online |-> result])]_vars

\* C30: once the exit handling has run, no sidecar that was spawned is still
\* running without kill having been issued on its handle.
C30_SpawnedKilledAtExit ==
    app.event = "Exit" =>
        \A c \in Companions : sidecars[c].proc = "running" => sidecars[c].kill

\* C31: the pump sends each non-empty read as one message holding exactly the
\* bytes read, so every message of a channel has between 1 and BufSize bytes;
\* a pump that has ended on a zero-length read, a failed read or a failed send
\* stays ended and adds nothing to its channel.
C31_OneMessagePerRead ==
    [][\A id \in Ids :
         /\ (pump[id].pc = "read" /\ pump'[id].pc = "send")
               => /\ pump'[id].buf # <<>>
                  /\ ptyOut[id] = pump'[id].buf \o ptyOut'[id]
         /\ (pump[id].pc = "send" /\ pump'[id] # pump[id])
               => \/ pump'[id].pc = "read" /\ chan'[id] = Append(chan[id], pump[id].buf)
                  \/ pump'[id].pc = "gone" /\ chan'[id] = chan[id]
         /\ Len(chan'[id]) > Len(chan[id])
               => pump[id].pc = "send" /\ Len(chan'[id]) = Len(chan[id]) + 1
         /\ \A k \in 1..Len(chan'[id]) :
               Len(chan'[id][k]) >= 1 /\ Len(chan'[id][k]) <= BufSize
         /\ PumpDone(id)
               => pump'[id] = pump[id] /\ Len(chan'[id]) <= Len(chan[id])]_vars

\* C31 witness: a pump that filled its buffer sent it as one message that still
\* waits in the channel, and has since ended on a failed read.
C31_Witness ==
    \E id \in Ids :
        /\ pump[id].pc = "err"
        /\ chan[id] # <<>>
        /\ Len(chan[id][Len(chan[id])]) = BufSize

\* C32: a read that begins on a registered session whose pump has ended and
\* whose channel is empty takes no data and returns Closed, never the empty
\* success a session with no data yet gives.
C32_EndedAndEmptyIsClosed ==
    [][/\ (cmd.op = "read" /\ cmd.pc = "drain" /\ cmd.out = <<>>
             /\ PumpDone(cmd.id) /\ chan[cmd.id] = <<>> /\ cmd' # cmd)
            => /\ cmd'.pc = "done"
               /\ cmd'.res = Closed
               /\ cmd'.log = <<"Disconnected">>
       /\ (ReadReturns /\ cmd'.res = "Ok" /\ cmd'.val = <<>>)
            => ~PumpDone(cmd.id) /\ cmd'.log = <<"Empty">>]_vars

\* C32 witness: a read has returned Closed on a session that is still
\* registered, after earlier reads took everything its pump had sent.
C32_Witness ==
    /\ cmd.op = "read" /\ cmd.pc = "done" /\ cmd.res = Closed
    /\ cmd.id \in DOMAIN sessions
    /\ PumpDone(cmd.id) /\ chan[cmd.id] = <<>>
    /\ drained[cmd.id] # <<>> /\ drained[cmd.id] = pumped[cmd.id]

\* The acquisitions of the session's writer by its initial-command thread.
PrimeWrites(id) == {j \in 1..Len(wlog[id]) : wlog[id][j].who = "prime"}

\* C33: the initial-command thread takes the writer at most once, for the
\* command followed by one newline, and the pty receives the bytes of each
\* holder of the writer in one piece, in the order the writer was taken; a
\* create without an initial command writes nothing.
C33_PrimingOnceAndLocked ==
    \A id \in Ids :
        /\ Cardinality(PrimeWrites(id)) <= 1
        /\ prime[id].pc = "none" => PrimeWrites(id) = {}
        /\ \A j \in PrimeWrites(id) :
              /\ wlog[id][j].data = prime[id].data
              /\ \E c \in Commands \ {None} :
                    wlog[id][j].data = AsBytes(c[1]) \o <<10>>
              /\ wlog[id][j].st = "busy" <=> prime[id].pc \in {"write", "flush"}
        /\ ptyIn[id] = Arrived(wlog[id])
        /\ \A j \in 1..Len(wlog[id]) :
              wlog[id][j].st = "busy" =>
                  j = Len(wlog[id]) /\ writerLock[id] = wlog[id][j].who

\* C33 witness: the initial command went out whole, and the two bytes of a
\* write call went out whole after it.
C33_Witness ==
    \E id \in Ids :
        /\ Len(wlog[id]) = 2
        /\ wlog[id][1].who = "prime" /\ wlog[id][1].st = "ok"
        /\ wlog[id][2].who = "cmd" /\ wlog[id][2].st = "ok"
        /\ ptyIn[id] = <<99, 10>> \o wlog[id][2].data
        /\ Len(wlog[id][2].data) = 2

\* C34: a close of a registered session removes that record and drops its
\* Receiver, and changes nothing else: the other records and every shell,
\* the closed one's included, are as before; a close of an identifier that is
\* not registered returns NotFound and changes nothing.  A shell ends only
\* by its own step, never by a command.
C34_CloseRemovesOnlyThat ==
    [][/\ (cmd' # cmd /\ cmd'.op = "close")
            => IF cmd'.id \in DOMAIN sessions
               THEN /\ cmd'.res = "Ok"
                    /\ DOMAIN sessions' = DOMAIN sessions \ {cmd'.id}
                    /\ \A j \in DOMAIN sessions' :
                          sessions'[j] = sessions[j] /\ chan'[j] = chan[j]
                    /\ chan'[cmd'.id] = <<>>
                    /\ UNCHANGED <<inflight, nextId, ptySize, child, ptyOut,
                                   ptyIn, flushed, pump, writerLock, prime,
                                   pumped, drained, wlog>>
               ELSE /\ cmd'.res = NotFound(cmd'.id)
                    /\ UNCHANGED rest
       /\ child' # child => cmd' = cmd /\ UNCHANGED sessions]_vars

\* C34 witness: a session was closed while its shell was alive and another
\* session was registered; the shell is still alive and the other session is
\* still registered.
C34_Witness ==
    /\ cmd.op = "close" /\ cmd.pc = "done" /\ cmd.res = "Ok"
    /\ Removed(cmd.id) /\ child[cmd.id] = "alive"
    /\ \E j \in DOMAIN sessions : j # cmd.id /\ child[j] = "alive"

\* C35: reads of one session never share a chunk and never alternate: a chunk
\* leaves the channel in the step that hands it to the one read inside the
\* registry lock, which appends it to what that read has taken; no read begins
\* while another command is inside the lock; so what a read returns is one
\* consecutive piece of the bytes drained, in producer order.
C35_ReadsTakeConsecutiveChunks ==
    [][/\ \A id \in Ids :
            drained'[id] # drained[id]
                => /\ cmd.op = "read" /\ cmd.pc = "drain" /\ cmd.id = id
                   /\ chan[id] # <<>>
                   /\ chan'[id] = Tail(chan[id])
                   /\ drained'[id] = drained[id] \o Head(chan[id])
                   /\ cmd' = [cmd EXCEPT !.out = cmd.out \o Head(chan[id])]
       /\ (cmd' # cmd /\ cmd'.op = "read" /\ cmd.pc # "done")
            => cmd.op = "read" /\ cmd'.id = cmd.id /\ IsPrefix(cmd.out, cmd'.out)
       /\ (cmd' # cmd /\ cmd'.op = "read" /\ cmd.pc = "done")
            => cmd'.out = <<>>
       /\ cmd'.op = "read"
            => /\ EndsWith(drained'[cmd'.id], cmd'.out)
               /\ IsPrefix(drained'[cmd'.id], pumped'[cmd'.id])]_vars

\* C35 witness: two reads of one session have each returned bytes; the later
\* one returned the bytes that follow those of the earlier one.
C35_Witness ==
    /\ cmd.op = "read" /\ cmd.pc = "done" /\ cmd.res = "Ok"
    /\ cmd.out # <<>>
    /\ Len(drained[cmd.id]) > Len(cmd.out)
    /\ cmd.out = SubSeq(pumped[cmd.id], Len(drained[cmd.id]) - Len(cmd.out) + 1,
                        Len(drained[cmd.id]))

\* A read of the session id has returned, and is the last command returned.
ReadDone(id) == cmd.op = "read" /\ cmd.id = id /\ cmd.pc = "done"

\* C36: once a read of a session has returned Closed, every read of it that
\* returns from then on returns Closed while the session is registered and
\* NotFound once it is removed.
C36_ClosedIsStable ==
    \A id \in Ids :
        []((ReadDone(id) /\ cmd.res = Closed)
              => [](ReadDone(id)
                      => IF id \in DOMAIN sessions
                         THEN cmd.res = Closed
                         ELSE cmd.res = NotFound(id)))

\* C36 witness: a read that was not the first of its session has returned
\* Closed, after the bytes the pump sent before it ended were taken.
C36_Witness ==
    /\ cmd.op = "read" /\ cmd.pc = "done" /\ cmd.res = Closed
    /\ cmd.arg = <<FALSE>>
    /\ pump[cmd.id].pc = "err"
    /\ Len(drained[cmd.id]) = 2

\* C37: the bytes a read of a session has taken, and the bytes that wait in
\* its channel, are bytes its own pump read from its own pty, in order:
\* nothing of another session's shell is among them.
C37_ReadsOwnBytesOnly ==
    /\ \A id \in Ids :
          /\ \A k \in 1..Len(pumped[id]) : pumped[id][k] = ShellByte(id, k)
          /\ IsPrefix(drained[id] \o Flat(chan[id]), pumped[id])
    /\ cmd.op = "read"
          => /\ EndsWith(drained[cmd.id], cmd.out)
             /\ \A k \in 1..Len(cmd.out) :
                   LET at == Len(drained[cmd.id]) - Len(cmd.out) + k
                   IN  \A j \in Ids \ {cmd.id} :
                           ShellByte(j, at) # ShellByte(cmd.id, at)
                               => cmd.out[k] # ShellByte(j, at)

\* C37 witness: a read of one session has returned the byte its shell wrote
\* while another session, with a shell of its own, was registered.
C37_Witness ==
    /\ cmd.op = "read" /\ cmd.pc = "done" /\ cmd.res = "Ok"
    /\ cmd.out = <<ShellByte(cmd.id, 1)>>
    /\ \E j \in DOMAIN sessions :
          j # cmd.id /\ child[j] = "alive" /\ pump[j].pc = "read"

\* C38: the initial-command thread writes nothing to the pty of a session
\* that has been removed from the registry.
C38_NoPrimingAfterRemoval ==
    [][\A id \in Ids :
         (prime'[id].k > prime[id].k /\ ptyIn'[id] # ptyIn[id]) => ~Removed(id)]_vars

\* C39: a read gathers the bytes of the chunks it takes, unconverted and in
\* order, and converts them once, all together, when its loop ends: the text
\* it returns is the text of the concatenated bytes, whatever the chunks were,
\* and bytes that are valid UTF-8 together come back as their characters.
C39_TextOfTheConcatenation ==
    [][(cmd.op = "read" /\ cmd.pc = "drain" /\ cmd' # cmd)
          => IF cmd'.pc = "drain"
             THEN /\ chan[cmd.id] # <<>>
                  /\ cmd'.out = cmd.out \o Head(chan[cmd.id])
                  /\ EndsWith(drained'[cmd.id], cmd'.out)
             ELSE /\ cmd'.out = cmd.out
                  /\ EndsWith(drained[cmd.id], cmd.out)
                  /\ cmd.out # <<>>
                        => /\ cmd'.res = "Ok"
                           /\ cmd'.val = ReadText(cmd.out)
                           /\ Utf8Valid(cmd.out) => AsBytes(cmd'.val) = cmd.out]_vars

\* C39 witness: a read has taken a chunk that ends with the first byte of a
\* two-byte character and is about to take the chunk holding the second.
C39_Witness ==
    /\ cmd.op = "read" /\ cmd.pc = "drain"
    /\ cmd.out = <<ShellByte(cmd.id, 1), 195>>
    /\ chan[cmd.id] = <<<<ShellByte(cmd.id, 3)>>>>
    /\ Utf8Valid(cmd.out \o Head(chan[cmd.id]))

\* C40: what get_network_status returns is the value of the latest
\* network-status-changed event emitted before it, or true when none was.
C40_StatusMatchesEvents ==
    reply # None =>
        reply[1].status.online =
            (IF reply[1].seen = 0 THEN TRUE ELSE emitted[reply[1].seen].online)

====
